---- MODULE Spec2Model ----
(***************************************************************************)
(* A model of targetprocess_mcp.py: the configuration resolver             *)
(* (init_client, load_config_from_file), the REST client                   *)
(* (TargetProcessClient) and the tool functions built on it.               *)
(*                                                                         *)
(* Python values are represented as follows.                               *)
(*   - Optional[T]: a sequence of length 0 (None) or 1 (the value).        *)
(*   - dict: a function whose DOMAIN is the set of keys present.           *)
(*   - list: a sequence.                                                   *)
(*   - a URL string: a stem followed by a number of "/" characters, so     *)
(*     that rstrip("/") is computed rather than assumed.                   *)
(* A tool is a coroutine: one action runs it from one await to the next.   *)
(* Every HTTP request a tool makes is appended to calls, and every         *)
(* response it gets to responses.                                          *)
(***************************************************************************)
EXTENDS Integers, Sequences, FiniteSets, TLC

VARIABLES
    tp_client,   \* the module-level singleton: None or Some(client)
    init_call,   \* the init_client() call that has just run: None or Some(frame)
    pc,          \* where the invocation in flight is suspended ("idle": none)
    tool,        \* the tool function of the invocation in flight
    args,        \* its arguments
    locals,      \* its local variables that live across an await
    calls,       \* the client calls it has made so far, in order
    responses,   \* the responses those calls have got so far, in order
    result,      \* what it returned or raised
    tasks,       \* the frames of the tool coroutines the event loop runs together
    remote_entity, \* the entity those coroutines read and write at Targetprocess
    server       \* the server process started by main(): serving, exit status, log

vars == <<tp_client, init_call, pc, tool, args, locals, calls, responses, result,
          tasks, remote_entity, server>>

\* What a single tool invocation, run on its own, leaves alone.
others == <<tasks, remote_entity, server>>

----------------------------------------------------------------------------
(* Bounds of the model. *)

MaxId == 1          \* entity, project, process and state ids range over 0..MaxId
MaxHours == 2       \* hours and TimeSpent values range over 0..MaxHours
MaxItems == 2       \* the longest Items list a response holds
MaxPriority == 1    \* NumericPriority values range over 0..MaxPriority
MaxTypes == 2       \* the longest entity_types list a caller passes
MaxEffort == 1      \* effort estimates range over 0..MaxEffort

----------------------------------------------------------------------------
(* Python values. *)

None == <<>>
Some(v) == <<v>>

\* Python truthiness of an Optional[int], an Optional[str], a list, a dict.
TruthyInt(x) == Len(x) = 1 /\ x[1] # 0
TruthyStr(x) == Len(x) = 1 /\ x[1] # ""
TruthyList(l) == Len(l) > 0
TruthyDict(d) == DOMAIN d # {}

EmptyDict == [k \in {} |-> None]

\* dict.get(key, default)
DictGet(d, key, default) == IF key \in DOMAIN d THEN d[key] ELSE default

\* dict.get(key), for a key whose value is never null: None when missing.
Get(d, key) == IF key \in DOMAIN d THEN Some(d[key]) ELSE None

\* sep.join(parts)
RECURSIVE Join(_, _)
Join(parts, sep) ==
    IF Len(parts) = 0 THEN ""
    ELSE IF Len(parts) = 1 THEN parts[1]
    ELSE parts[1] \o sep \o Join(Tail(parts), sep)

\* json.dumps / json.loads: the text of a value, and the value of a text.
json_dumps(v) == [json_text_of |-> v]
json_loads(s) == s.json_text_of

\* A URL string: stem followed by `slashes` "/" characters.
Url(stem, slashes) == [stem |-> stem, slashes |-> slashes]
\* Any URL string taken as true, the empty one too (not what the code does).
TruthyUrlAny(x) == Len(x) = 1
\* bool(url) for an Optional URL string.
TruthyUrl(x) == Len(x) = 1 /\ (x[1].stem # "" \/ x[1].slashes > 0)
\* str.rstrip("/")
RStripSlash(u) == Url(u.stem, 0)
RECURSIVE Slashes(_)
Slashes(n) == IF n = 0 THEN "" ELSE "/" \o Slashes(n - 1)
UrlStr(u) == u.stem \o Slashes(u.slashes)

\* base64.b64encode(s.encode()).decode()
b64encode(s) == "base64(" \o s \o ")"

----------------------------------------------------------------------------
(* TargetProcessConfig and TargetProcessClient. *)

TargetProcessConfig(base_url, token, username, password) ==
    [base_url |-> base_url, token |-> token,
     username |-> username, password |-> password]

StaticHeaders ==
    ("Accept" :> "application/json") @@ ("Content-Type" :> "application/json")

\* Basic authentication whenever a username and a password are configured,
\* token or not (not what the code does).
UsesBasicAuthIgnoringToken(config) ==
    TruthyStr(config.username) /\ TruthyStr(config.password)

\* Basic authentication never (not what the code does).
UsesBasicAuthNever(config) == FALSE

\* if not self.access_token and config.username and config.password
UsesBasicAuth(config) ==
    ~TruthyStr(config.token) /\ TruthyStr(config.username)
        /\ TruthyStr(config.password)

\* TargetProcessClient.__init__
TargetProcessClient(config) ==
    LET base_url == RStripSlash(config.base_url)
        access_token == config.token
        basic == UsesBasicAuth(config)
        credentials == b64encode(config.username[1] \o ":" \o config.password[1])
    IN  [config |-> config,
         base_url |-> UrlStr(base_url),
         api_v1_url |-> UrlStr(base_url) \o "/api/v1",
         api_v2_url |-> UrlStr(base_url) \o "/api/v2",
         access_token |-> access_token,
         headers |-> IF basic
                     THEN StaticHeaders @@ ("Authorization" :> ("Basic " \o credentials))
                     ELSE StaticHeaders]

\* The access_token query parameter, added by every client operation.
WithAccessToken(client, params) ==
    IF TruthyStr(client.access_token)
    THEN params @@ ("access_token" :> client.access_token[1])
    ELSE params

Request(method, url, client, params, body) ==
    [method |-> method, url |-> url, headers |-> client.headers,
     params |-> params, json |-> body]

\* TargetProcessClient.get_entities, up to the await of the response.
get_entities(client, entity_type, where, include, take) ==
    LET p0 == ("format" :> "json") @@ ("take" :> ToString(take))
        p1 == IF TruthyStr(where) THEN p0 @@ ("where" :> where[1]) ELSE p0
        p2 == IF TruthyStr(include) THEN p1 @@ ("include" :> include[1]) ELSE p1
    IN  [op |-> "get_entities", entity_type |-> entity_type, entity_id |-> None,
         where |-> where, include |-> include, take |-> Some(take), data |-> None,
         request |-> Request("GET", client.api_v1_url \o "/" \o entity_type,
                             client, WithAccessToken(client, p2), None)]

\* TargetProcessClient.get_entity_by_id, up to the await of the response.
get_entity_by_id(client, entity_type, entity_id, include) ==
    LET p0 == ("format" :> "json")
        p1 == IF TruthyStr(include) THEN p0 @@ ("include" :> include[1]) ELSE p0
    IN  [op |-> "get_entity_by_id", entity_type |-> entity_type,
         entity_id |-> Some(entity_id),
         where |-> None, include |-> include, take |-> None, data |-> None,
         request |-> Request("GET",
                             client.api_v1_url \o "/" \o entity_type \o "/"
                                 \o ToString(entity_id),
                             client, WithAccessToken(client, p1), None)]

\* TargetProcessClient.get_entity_by_id called with a name in place of the id
\* (the f-string formats a str as itself).
get_entity_by_name(client, entity_type, entity_id, include) ==
    LET p0 == ("format" :> "json")
        p1 == IF TruthyStr(include) THEN p0 @@ ("include" :> include[1]) ELSE p0
    IN  [op |-> "get_entity_by_id", entity_type |-> entity_type,
         entity_id |-> Some(entity_id),
         where |-> None, include |-> include, take |-> None, data |-> None,
         request |-> Request("GET",
                             client.api_v1_url \o "/" \o entity_type \o "/"
                                 \o entity_id,
                             client, WithAccessToken(client, p1), None)]

\* TargetProcessClient.create_entity, up to the await of the response.
create_entity(client, entity_type, data) ==
    [op |-> "create_entity", entity_type |-> entity_type, entity_id |-> None,
     where |-> None, include |-> None, take |-> None, data |-> Some(data),
     request |-> Request("POST", client.api_v1_url \o "/" \o entity_type,
                         client, WithAccessToken(client, "format" :> "json"),
                         Some(data))]

\* An update sent as a PUT (not what the code does).
update_entity_put(client, entity_type, entity_id, data) ==
    [op |-> "update_entity", entity_type |-> entity_type,
     entity_id |-> Some(entity_id),
     where |-> None, include |-> None, take |-> None, data |-> Some(data),
     request |-> Request("PUT",
                         client.api_v1_url \o "/" \o entity_type \o "/"
                             \o ToString(entity_id),
                         client, WithAccessToken(client, "format" :> "json"),
                         Some(data))]

\* TargetProcessClient.update_entity, up to the await of the response.
update_entity(client, entity_type, entity_id, data) ==
    [op |-> "update_entity", entity_type |-> entity_type,
     entity_id |-> Some(entity_id),
     where |-> None, include |-> None, take |-> None, data |-> Some(data),
     request |-> Request("POST",
                         client.api_v1_url \o "/" \o entity_type \o "/"
                             \o ToString(entity_id),
                         client, WithAccessToken(client, "format" :> "json"),
                         Some(data))]

\* TargetProcessClient.add_comment, up to the await of the response.
client_add_comment(client, entity_type, entity_id, comment) ==
    [op |-> "add_comment", entity_type |-> entity_type,
     entity_id |-> Some(entity_id),
     where |-> None, include |-> None, take |-> None,
     data |-> Some([Description |-> comment, General |-> [Id |-> entity_id]]),
     request |-> Request("POST", client.api_v1_url \o "/Comment",
                         client, WithAccessToken(client, "format" :> "json"),
                         Some([Description |-> comment,
                               General |-> [Id |-> entity_id]]))]

\* No status taken as an error (not what the code does).
raise_for_status_never(response) == FALSE

\* response.raise_for_status(): an HTTP error for a status that is not 2xx.
raise_for_status(response) == ~(response.status \in 200..299)
\* The error it raises, as str(e) shows it.
HTTPStatusError(response) == "HTTPStatusError: " \o ToString(response.status)

----------------------------------------------------------------------------
(* Configuration resolution. *)

\* os.getenv(name)
getenv(env, name) == DictGet(env, name, None)

\* The config file taken as an empty object whatever it holds (not what the
\* code does).
load_config_from_file_ignored(file) == EmptyDict

\* load_config_from_file: the file is absent, unreadable or unparsable, or
\* holds a JSON object.
load_config_from_file(file) ==
    IF file.exists
    THEN IF file.parses THEN file.data ELSE EmptyDict
    ELSE EmptyDict

\* Python's `a or b` on two Optional[str] (or URL) values.
OrStr(a, b) == IF TruthyStr(a) THEN a ELSE b
OrUrl(a, b) == IF TruthyUrl(a) THEN a ELSE b

\* The messages of the two ValueErrors, phrase by phrase, and as strings.
URL_NOT_FOUND_PHRASES ==
    <<"TARGETPROCESS_URL not found",
      " in environment variables or ~/.config/targetprocess/config.json">>
TOKEN_REQUIRED_PHRASES ==
    <<"TARGETPROCESS_TOKEN", " is required",
      " (check environment variables or ~/.config/targetprocess/config.json)">>
URL_NOT_FOUND == Join(URL_NOT_FOUND_PHRASES, "")
TOKEN_REQUIRED == Join(TOKEN_REQUIRED_PHRASES, "")

\* init_client: what it raises (None when it returns), the client it installs,
\* and whether it read the config file.
init_client(env, file) ==
    LET env_url == getenv(env, "TARGETPROCESS_URL")
        env_token == getenv(env, "TARGETPROCESS_TOKEN")
        incomplete == ~TruthyUrl(env_url) \/ ~TruthyStr(env_token)
        config_data == IF incomplete THEN load_config_from_file(file) ELSE EmptyDict
        base_url == IF incomplete
                    THEN OrUrl(env_url, DictGet(config_data, "TARGETPROCESS_URL", None))
                    ELSE env_url
        token == IF incomplete
                 THEN OrStr(env_token, DictGet(config_data, "TARGETPROCESS_TOKEN", None))
                 ELSE env_token
        loaded == IF incomplete THEN Some(config_data) ELSE None
    IN  IF ~TruthyUrl(base_url)
        THEN [raised |-> Some(URL_NOT_FOUND), client |-> None,
              file_read |-> incomplete, config_data |-> loaded]
        ELSE IF ~TruthyStr(token)
        THEN [raised |-> Some(TOKEN_REQUIRED), client |-> None,
              file_read |-> incomplete, config_data |-> loaded]
        ELSE [raised |-> None,
              client |-> Some(TargetProcessClient(
                            TargetProcessConfig(base_url[1], token, None, None))),
              file_read |-> incomplete, config_data |-> loaded]

----------------------------------------------------------------------------
(* The inputs the model draws from. *)

Ids == 0..MaxId
OptIds == {None} \cup {Some(i) : i \in Ids}
OptNames == {None, Some(""), Some("Open")}
OptUsers == {None, Some(""), Some("bob")}
OptSeverities == {None, Some(""), Some("Critical")}
OptWhereClauses == {None, Some(""), Some("Tags contains 'urgent'")}
EntityTypes == {"UserStory", "Task"}
DefaultLimit == 50
IterationsLimit == 100

ENV_KEYS ==
    {"TARGETPROCESS_URL", "TARGETPROCESS_TOKEN",
     "TARGETPROCESS_USERNAME", "TARGETPROCESS_PASSWORD"}

\* The dict of the four settings, holding the keys whose value is given.
Settings(url, token, username, password) ==
    LET all == [k \in ENV_KEYS |->
                  CASE k = "TARGETPROCESS_URL" -> url
                    [] k = "TARGETPROCESS_TOKEN" -> token
                    [] k = "TARGETPROCESS_USERNAME" -> username
                    [] OTHER -> password]
    IN  [k \in {x \in ENV_KEYS : all[x] # None} |-> all[k]]

\* os.environ: each variable unset or set; URL and token also set but empty.
Envs ==
    { Settings(u, t, n, p) :
        u \in {None, Some(Url("", 0)), Some(Url("https://env.tpondemand.com", 1))},
        t \in {None, Some(""), Some("env_token")},
        n \in {None, Some("env_user")},
        p \in {None, Some("env_pass")} }

\* ~/.config/targetprocess/config.json: absent, broken, or a JSON object.
Files ==
    {[exists |-> FALSE, parses |-> FALSE, data |-> EmptyDict],
     [exists |-> TRUE, parses |-> FALSE, data |-> EmptyDict]}
    \cup
    { [exists |-> TRUE, parses |-> TRUE, data |-> Settings(u, t, n, p)] :
        u \in {None, Some(Url("https://file.tpondemand.com", 0))},
        t \in {None, Some("file_token")},
        n \in {None, Some("file_user")},
        p \in {None, Some("file_pass")} }

\* The configurations a client is constructed from directly (as the tests do).
DirectConfigs ==
    { TargetProcessConfig(Url("https://test.tpondemand.com", 0), t, n, p) :
        t \in {None, Some("test_token")},
        n \in {None, Some("testuser")},
        p \in {None, Some("testpass")} }

\* What the remote service answers to a request: a status and a JSON body.
Response(status, body) == [status |-> status, json |-> body]
Statuses == {200, 500}
\* The responses a request can get: a body from Bodies, or an HTTP error.
Responses(Bodies) ==
    {Response(st, IF st \in 200..299 THEN b ELSE EmptyDict) :
        st \in Statuses, b \in Bodies}

----------------------------------------------------------------------------
(* The invocation in flight. *)

Returned(v) == Some([raised |-> FALSE, value |-> v])
Raised(e) == Some([raised |-> TRUE, value |-> e])

\* Every outcome init_client() can have, over the environments and files.
InitOutcomes == {init_client(env, file) : env \in Envs, file \in Files}

\* init_client() called at the head of a tool whether or not a client is set
\* (not what the code does).
LazyInitUnguarded == InitOutcomes

\* `if not tp_client: init_client()` at the head of every tool: the
\* outcomes it can have (init_client() is called only when no client is set).
LazyInit ==
    IF tp_client = None
    THEN InitOutcomes
    ELSE {[raised |-> None, client |-> tp_client, file_read |-> FALSE,
           config_data |-> None]}

\* The awaited call completes with `response`.
Deliver(response) == responses' = Append(responses, response)

\* The tool runs up to its first await, of `call`.
Suspend(t, a, client, l, call, at) ==
    /\ tp_client' = client
    /\ tool' = t
    /\ args' = a
    /\ locals' = l
    /\ calls' = <<call>>
    /\ responses' = <<>>
    /\ pc' = at
    /\ result' = None
    /\ UNCHANGED <<init_call, others>>

\* The tool ends before any await: it returns or raises `r`.
Complete(t, a, client, r) ==
    /\ tp_client' = client
    /\ tool' = t
    /\ args' = a
    /\ locals' = EmptyDict
    /\ calls' = <<>>
    /\ responses' = <<>>
    /\ pc' = "done"
    /\ result' = r
    /\ UNCHANGED <<init_call, others>>

\* The tool resumes, and ends returning or raising `r`.
Finish(r) ==
    /\ pc' = "done"
    /\ result' = r
    /\ UNCHANGED <<tp_client, init_call, tool, args, locals, calls, others>>

\* The tool resumes, binds its local variables to `l`, and ends returning or
\* raising `r`.
FinishWith(l, r) ==
    /\ locals' = l
    /\ pc' = "done"
    /\ result' = r
    /\ UNCHANGED <<tp_client, init_call, tool, args, calls, others>>

\* The tool resumes, and runs up to its next await, of `call`.
Resume(l, call, at) ==
    /\ locals' = l
    /\ calls' = Append(calls, call)
    /\ pc' = at
    /\ UNCHANGED <<tp_client, init_call, tool, args, result, others>>

----------------------------------------------------------------------------
(* The list tools. *)

AssignedClause(assigned_to) ==
    "(AssignedUser.Email eq '" \o assigned_to \o "' or AssignedUser.FirstName eq '"
        \o assigned_to \o "')"

\* list_user_stories: the filter it builds.
list_user_stories_where(a) ==
    LET c1 == IF TruthyStr(a.where_clause) THEN <<a.where_clause[1]>> ELSE <<>>
        c2 == IF TruthyInt(a.project_id)
              THEN Append(c1, "Project.Id eq " \o ToString(a.project_id[1])) ELSE c1
        c3 == IF TruthyInt(a.iteration_id)
              THEN Append(c2, "Iteration.Id eq " \o ToString(a.iteration_id[1])) ELSE c2
        c4 == IF TruthyStr(a.state)
              THEN Append(c3, "EntityState.Name eq '" \o a.state[1] \o "'") ELSE c3
        c5 == IF TruthyStr(a.assigned_to)
              THEN Append(c4, AssignedClause(a.assigned_to[1])) ELSE c4
    IN  IF TruthyList(c5) THEN Some(Join(c5, " and ")) ELSE None

\* list_tasks with the state clause placed before the story clause.
list_tasks_where_state_first(a) ==
    LET c1 == IF TruthyStr(a.where_clause) THEN <<a.where_clause[1]>> ELSE <<>>
        c2 == IF TruthyStr(a.state)
              THEN Append(c1, "EntityState.Name eq '" \o a.state[1] \o "'") ELSE c1
        c3 == IF TruthyInt(a.story_id)
              THEN Append(c2, "UserStory.Id eq " \o ToString(a.story_id[1])) ELSE c2
        c4 == IF TruthyStr(a.assigned_to)
              THEN Append(c3, AssignedClause(a.assigned_to[1])) ELSE c3
    IN  IF TruthyList(c4) THEN Some(Join(c4, " and ")) ELSE None

\* list_tasks: the filter it builds.
list_tasks_where(a) ==
    LET c1 == IF TruthyStr(a.where_clause) THEN <<a.where_clause[1]>> ELSE <<>>
        c2 == IF TruthyInt(a.story_id)
              THEN Append(c1, "UserStory.Id eq " \o ToString(a.story_id[1])) ELSE c1
        c3 == IF TruthyStr(a.state)
              THEN Append(c2, "EntityState.Name eq '" \o a.state[1] \o "'") ELSE c2
        c4 == IF TruthyStr(a.assigned_to)
              THEN Append(c3, AssignedClause(a.assigned_to[1])) ELSE c3
    IN  IF TruthyList(c4) THEN Some(Join(c4, " and ")) ELSE None

\* list_bugs: the filter it builds.
list_bugs_where(a) ==
    LET c1 == IF TruthyStr(a.where_clause) THEN <<a.where_clause[1]>> ELSE <<>>
        c2 == IF TruthyInt(a.project_id)
              THEN Append(c1, "Project.Id eq " \o ToString(a.project_id[1])) ELSE c1
        c3 == IF TruthyStr(a.state)
              THEN Append(c2, "EntityState.Name eq '" \o a.state[1] \o "'") ELSE c2
        c4 == IF TruthyStr(a.severity)
              THEN Append(c3, "Severity.Name eq '" \o a.severity[1] \o "'") ELSE c3
        c5 == IF TruthyStr(a.assigned_to)
              THEN Append(c4, AssignedClause(a.assigned_to[1])) ELSE c4
    IN  IF TruthyList(c5) THEN Some(Join(c5, " and ")) ELSE None

\* list_iterations: the filter it builds.
list_iterations_where(a) ==
    LET c1 == IF TruthyInt(a.project_id)
              THEN <<"Project.Id eq " \o ToString(a.project_id[1])>> ELSE <<>>
        c2 == IF a.is_current THEN Append(c1, "IsCurrent eq 'true'") ELSE c1
    IN  IF TruthyList(c2) THEN Some(Join(c2, " and ")) ELSE None

INCLUDE_USER_STORIES ==
    "[Id,Name,Description,EntityState,Project[Name],Iteration[Name],AssignedUser[FirstName,LastName,Email],Effort,TimeSpent,CreateDate,ModifyDate]"
INCLUDE_TASKS ==
    "[Id,Name,Description,EntityState,UserStory[Id,Name],AssignedUser[FirstName,LastName,Email],Effort,TimeSpent,CreateDate,ModifyDate]"
INCLUDE_BUGS ==
    "[Id,Name,Description,EntityState,Severity,Project[Name],AssignedUser[FirstName,LastName,Email],CreateDate,ModifyDate]"
INCLUDE_ITERATIONS == "[Id,Name,StartDate,EndDate,IsCurrent,Project[Name]]"

\* A tool whose first step is one get_entities call whose result it returns.
ListTool(t, a, ic, entity_type, where, include, take) ==
    IF ic.raised # None
    THEN Complete(t, a, ic.client, Raised(ic.raised[1]))
    ELSE Suspend(t, a, ic.client, EmptyDict,
                 get_entities(ic.client[1], entity_type, where, include, take),
                 "await_result")

ListUserStoriesArgs ==
    [project_id : OptIds, iteration_id : OptIds, state : OptNames,
     assigned_to : OptUsers, where_clause : OptWhereClauses, limit : {DefaultLimit}]
ListTasksArgs ==
    [story_id : OptIds, assigned_to : OptUsers, state : OptNames,
     where_clause : OptWhereClauses, limit : {DefaultLimit}]
ListBugsArgs ==
    [project_id : OptIds, state : OptNames, severity : OptSeverities,
     assigned_to : OptUsers, where_clause : OptWhereClauses, limit : {DefaultLimit}]
ListIterationsArgs == [project_id : OptIds, is_current : BOOLEAN]

list_user_stories ==
    /\ pc = "idle"
    /\ \E ic \in LazyInit, a \in ListUserStoriesArgs :
         ListTool("list_user_stories", a, ic, "UserStories",
                  list_user_stories_where(a), Some(INCLUDE_USER_STORIES), a.limit)

list_tasks ==
    /\ pc = "idle"
    /\ \E ic \in LazyInit, a \in ListTasksArgs :
         ListTool("list_tasks", a, ic, "Tasks",
                  list_tasks_where(a), Some(INCLUDE_TASKS), a.limit)

list_bugs ==
    /\ pc = "idle"
    /\ \E ic \in LazyInit, a \in ListBugsArgs :
         ListTool("list_bugs", a, ic, "Bugs",
                  list_bugs_where(a), Some(INCLUDE_BUGS), a.limit)

list_iterations ==
    /\ pc = "idle"
    /\ \E ic \in LazyInit, a \in ListIterationsArgs :
         ListTool("list_iterations", a, ic, "Iterations",
                  list_iterations_where(a), Some(INCLUDE_ITERATIONS), IterationsLimit)

\* The bodies the remote service answers a pass-through request with.
OpaqueBodies == {[Items |-> <<>>], [Items |-> <<[Id |-> 1]>>]}

\* The last client call of a tool returns: an HTTP error propagates,
\* otherwise the tool returns json.dumps(result, indent=2).
await_result ==
    /\ pc = "await_result"
    /\ \E response \in Responses(OpaqueBodies) :
         Deliver(response) /\
         LET body == response.json
         IN  IF raise_for_status(response)
             THEN Finish(Raised(HTTPStatusError(response)))
             ELSE Finish(Returned(json_dumps(response.json)))

----------------------------------------------------------------------------
(* Tools that make one client call and return its result. *)

\* The head of a tool: its lazy init_client() raises, or the tool runs up
\* to its first await.
Start(t, a, ic, l, call, at) ==
    IF ic.raised # None
    THEN Complete(t, a, ic.client, Raised(ic.raised[1]))
    ELSE Suspend(t, a, ic.client, l, call, at)

INCLUDE_USER_STORY ==
    "[Id,Name,Description,EntityState,Project[Name],Iteration[Name],Release[Name],AssignedUser[FirstName,LastName,Email],Effort,TimeSpent,CreateDate,ModifyDate,Comments[Description,Owner[FirstName,LastName],CreateDate]]"

get_user_story ==
    /\ pc = "idle"
    /\ \E ic \in LazyInit, a \in [story_id : Ids] :
         Start("get_user_story", a, ic, EmptyDict,
               get_entity_by_id(ic.client[1], "UserStory", a.story_id,
                                Some(INCLUDE_USER_STORY)),
               "await_result")

create_user_story ==
    /\ pc = "idle"
    /\ \E ic \in LazyInit, a \in [name : {"New Story"}, project_id : Ids] :
         Start("create_user_story", a, ic, EmptyDict,
               create_entity(ic.client[1], "UserStories",
                             [Name |-> a.name, Project |-> [Id |-> a.project_id]]),
               "await_result")

add_comment ==
    /\ pc = "idle"
    /\ \E ic \in LazyInit,
          a \in [entity_type : EntityTypes, entity_id : Ids, comment : {"Test comment"}] :
         Start("add_comment", a, ic, EmptyDict,
               client_add_comment(ic.client[1], a.entity_type, a.entity_id, a.comment),
               "await_result")

----------------------------------------------------------------------------
(* update_entity_state *)

\* The Items lists a state lookup can answer with.
SeqsUpTo(S, n) == UNION {[1..k -> S] : k \in 0..n}
StateLookupBodies ==
    {EmptyDict} \cup {[Items |-> l] : l \in SeqsUpTo([Id : Ids], MaxItems)}

StateNames == {"Done", "InvalidState"}

\* The id of the last state found (not what the code takes).
state_id_of_last(states) == states["Items"][Len(states["Items"])]["Id"]

\* state_id = states["Items"][0]["Id"]
state_id_of(states) == states["Items"][1]["Id"]

\* update_entity_state, up to the state lookup.
update_entity_state ==
    /\ pc = "idle"
    /\ \E ic \in LazyInit,
          a \in [entity_type : EntityTypes, entity_id : Ids, state_name : StateNames] :
         Start("update_entity_state", a, ic, EmptyDict,
               get_entities(ic.client[1], "EntityStates",
                            Some("Name eq '" \o a.state_name \o "'"), None, 1),
               "update_entity_state_lookup")

\* update_entity_state, from the lookup's response to the update call.
update_entity_state_lookup ==
    /\ pc = "update_entity_state_lookup"
    /\ \E response \in Responses(StateLookupBodies) :
         Deliver(response) /\
         LET states == response.json
         IN  IF raise_for_status(response)
             THEN Finish(Raised(HTTPStatusError(response)))
             ELSE IF ~TruthyList(DictGet(states, "Items", None))
             THEN Finish(Returned(json_dumps(
                     [error |-> "State '" \o args.state_name \o "' not found"])))
             ELSE LET state_id == state_id_of(states)
                      data == [EntityState |-> [Id |-> state_id]]
                  IN  Resume(locals,
                             update_entity(tp_client[1], args.entity_type,
                                           args.entity_id, data),
                             "await_result")

----------------------------------------------------------------------------
(* update_time_spent *)

Hours == 0..MaxHours

\* The entity a read answers with: TimeSpent missing, null, or a number.
TimeSpentBodies ==
    {[Id |-> 1], [Id |-> 1, TimeSpent |-> None]}
    \cup {[Id |-> 1, TimeSpent |-> Some(c)] : c \in Hours}

\* The current time taken as 0 whatever the entity holds (not what the code does).
current_time_ignored(entity) == 0

\* entity.get("TimeSpent", 0) or 0
current_time_of(entity) ==
    LET got == DictGet(entity, "TimeSpent", Some(0))
    IN  IF TruthyInt(got) THEN got[1] ELSE 0

\* update_time_spent, up to the read of the entity.
update_time_spent ==
    /\ pc = "idle"
    /\ \E ic \in LazyInit,
          a \in [entity_type : EntityTypes, entity_id : Ids, hours : Hours] :
         Start("update_time_spent", a, ic, EmptyDict,
               get_entity_by_id(ic.client[1], a.entity_type, a.entity_id,
                                Some("[TimeSpent]")),
               "update_time_spent_read")

\* update_time_spent, from the read's response to the update call.
update_time_spent_read ==
    /\ pc = "update_time_spent_read"
    /\ \E response \in Responses(TimeSpentBodies) :
         Deliver(response) /\
         LET entity == response.json
         IN  IF raise_for_status(response)
             THEN Finish(Raised(HTTPStatusError(response)))
             ELSE LET current_time == current_time_of(entity)
                      data == [TimeSpent |-> current_time + args.hours]
                  IN  Resume([entity |-> entity],
                             update_entity(tp_client[1], args.entity_type,
                                           args.entity_id, data),
                             "await_result")

----------------------------------------------------------------------------
(* search_entities *)

DEFAULT_SEARCH_TYPES == <<"UserStories", "Tasks", "Bugs">>
SearchLimit == 20

\* The entity_types argument: None, or a list of at most MaxTypes names.
EntityTypeLists ==
    {None} \cup {Some(l) : l \in SeqsUpTo({"Tasks", "Bugs"}, MaxTypes)}

\* What one search query answers with: no Items key, or some items.
SearchBodies == {EmptyDict, [Items |-> <<[Id |-> 1]>>]}

\* The list query search_entities makes for one entity type.
search_query(client, entity_type, a) ==
    get_entities(client, entity_type,
                 Some("Name contains '" \o a.query \o "' or Description contains '"
                          \o a.query \o "'"),
                 Some("[Id,Name,EntityState,Project[Name]]"), a.limit)

\* A slot that holds no item for a query that succeeded (not what the code does).
search_slot_dropping_items(response) ==
    IF raise_for_status(response)
    THEN [error |-> HTTPStatusError(response)]
    ELSE <<>>

\* The slot of one entity type in the result map: the items the query
\* returned, or {error: str(e)} when it raised.
search_slot(response) ==
    IF raise_for_status(response)
    THEN [error |-> HTTPStatusError(response)]
    ELSE DictGet(response.json, "Items", <<>>)

\* search_entities, up to the query of the first entity type.
search_entities ==
    /\ pc = "idle"
    /\ \E ic \in LazyInit,
          a \in [query : {"query"}, entity_types : EntityTypeLists,
                 limit : {SearchLimit}] :
         LET entity_types ==
                 IF ~(Len(a.entity_types) = 1 /\ TruthyList(a.entity_types[1]))
                 THEN DEFAULT_SEARCH_TYPES
                 ELSE a.entity_types[1]
         IN  Start("search_entities", a, ic,
                   [entity_types |-> entity_types, i |-> 1, results |-> EmptyDict],
                   search_query(ic.client[1], entity_types[1], a),
                   "search_entities_query")

\* search_entities, from one query's outcome to the next query or the return.
search_entities_query ==
    /\ pc = "search_entities_query"
    /\ \E response \in Responses(SearchBodies) :
         Deliver(response) /\
         LET entity_type == locals.entity_types[locals.i]
             results == (entity_type :> search_slot(response)) @@ locals.results
         IN  IF locals.i < Len(locals.entity_types)
             THEN Resume([locals EXCEPT !.i = @ + 1, !.results = results],
                         search_query(tp_client[1],
                                      locals.entity_types[locals.i + 1], args),
                         "search_entities_query")
             ELSE FinishWith([locals EXCEPT !.results = results],
                             Returned(json_dumps(results)))

----------------------------------------------------------------------------
(* get_entity_states *)

INCLUDE_ENTITY_STATES == "[Id,Name,NumericPriority,Process[Id,Name],EntityType[Name]]"
DefaultTake == 100

\* The NumericPriority of a returned state: missing, null, or a number.
PriorityFields ==
    {None, Some(None)} \cup {Some(Some(n)) : n \in 0..MaxPriority}

\* A state as the remote service returns it; its Id is its place in the answer.
StateItem(i, p) ==
    LET base == [Id |-> i, Name |-> "State" \o ToString(i),
                 Process |-> [Id |-> 1, Name |-> "Scrum"]]
    IN  IF p = None THEN base ELSE ("NumericPriority" :> p[1]) @@ base

StateLists ==
    UNION { {[i \in 1..k |-> StateItem(i, f[i])] : f \in [1..k -> PriorityFields]}
            : k \in 0..MaxItems }

\* What the states query answers with: no Items key, or a list of states.
StatesBodies == {EmptyDict} \cup {[Items |-> l] : l \in StateLists}

\* One entry of formatted_states.
format_state(state) ==
    [Id |-> state["Id"],
     Name |-> state["Name"],
     Priority |-> DictGet(state, "NumericPriority", Some(0)),
     Process |-> DictGet(DictGet(state, "Process", EmptyDict), "Name", "Unknown")]

\* sorted(l, key=lambda x: x["Priority"]) on numeric priorities: stable, ascending.
RECURSIVE InsertByPriority(_, _)
InsertByPriority(s, x) ==
    IF Len(s) = 0 THEN <<x>>
    ELSE IF x.Priority[1] < s[1].Priority[1] THEN <<x>> \o s
    ELSE <<s[1]>> \o InsertByPriority(Tail(s), x)

RECURSIVE sorted_by_priority(_)
sorted_by_priority(l) ==
    IF Len(l) <= 1 THEN l
    ELSE InsertByPriority(sorted_by_priority(SubSeq(l, 1, Len(l) - 1)), l[Len(l)])

TYPE_ERROR == "TypeError: '<' not supported between instances of 'NoneType' and 'int'"

\* sorted() compares the keys with `<`, which raises TypeError when one of
\* two compared keys is None; a list of one element is never compared.
sorted_raises(l) == Len(l) >= 2 /\ \E i \in 1..Len(l) : l[i].Priority = None

\* get_entity_states, from the states response on: what it returns or raises.
format_states(states) ==
    LET items == DictGet(states, "Items", None)
        formatted_states == [i \in 1..Len(items) |-> format_state(items[i])]
    IN  IF ~TruthyList(items) THEN Returned(json_dumps(states))
        ELSE IF sorted_raises(formatted_states) THEN Raised(TYPE_ERROR)
        ELSE Returned(json_dumps(
                 [states EXCEPT !["Items"] = sorted_by_priority(formatted_states)]))

\* The states query with the process clause ahead of the entity-type clause
\* (not what the code does).
states_query_process_first(client, entity_type, process_id) ==
    LET c1 == <<"EntityType.Name eq '" \o entity_type \o "'">>
        c2 == IF process_id # None
              THEN <<"Process.Id eq " \o ToString(process_id[1])>> \o c1 ELSE c1
    IN  get_entities(client, "EntityStates", Some(Join(c2, " and ")),
                     Some(INCLUDE_ENTITY_STATES), DefaultTake)

\* The states query of get_entity_states, for an entity type and,
\* when process_id is not None, a process.
states_query(client, entity_type, process_id) ==
    LET c1 == <<"EntityType.Name eq '" \o entity_type \o "'">>
        c2 == IF process_id # None
              THEN Append(c1, "Process.Id eq " \o ToString(process_id[1])) ELSE c1
    IN  get_entities(client, "EntityStates", Some(Join(c2, " and ")),
                     Some(INCLUDE_ENTITY_STATES), DefaultTake)

\* get_entity_states, up to its first call: the project lookup when only a
\* project_id is given, the states query otherwise.
get_entity_states ==
    /\ pc = "idle"
    /\ \E ic \in LazyInit,
          a \in [entity_type : EntityTypes, process_id : OptIds, project_id : OptIds] :
         IF TruthyInt(a.process_id)
         THEN Start("get_entity_states", a, ic, EmptyDict,
                    states_query(ic.client[1], a.entity_type, a.process_id),
                    "get_entity_states_query")
         ELSE IF TruthyInt(a.project_id)
         THEN Start("get_entity_states", a, ic, EmptyDict,
                    get_entity_by_id(ic.client[1], "Projects", a.project_id[1],
                                     Some("[Process]")),
                    "get_entity_states_project")
         ELSE Start("get_entity_states", a, ic, EmptyDict,
                    states_query(ic.client[1], a.entity_type, None),
                    "get_entity_states_query")

\* The project a lookup answers with: empty, without Process, with a null
\* Process, or with a Process.
ProjectBodies ==
    {EmptyDict, [Id |-> 1], [Id |-> 1, Process |-> None]}
    \cup {[Id |-> 1, Process |-> Some([Id |-> i])] : i \in Ids}

\* get_entity_states, from the project's response to the states query.
get_entity_states_project ==
    /\ pc = "get_entity_states_project"
    /\ \E response \in Responses(ProjectBodies) :
         Deliver(response) /\
         LET project == response.json
             process == DictGet(project, "Process", None)
         IN  IF raise_for_status(response)
             THEN Finish(Raised(HTTPStatusError(response)))
             ELSE IF TruthyDict(project) /\ process # None /\ TruthyDict(process[1])
             THEN Resume(locals,
                         states_query(tp_client[1], args.entity_type,
                                      Some(process[1]["Id"])),
                         "get_entity_states_query")
             ELSE Resume(locals,
                         states_query(tp_client[1], args.entity_type, None),
                         "get_entity_states_query")

\* get_entity_states, from the states response to the return.
get_entity_states_query ==
    /\ pc = "get_entity_states_query"
    /\ \E response \in Responses(StatesBodies) :
         Deliver(response) /\
         LET states == response.json
         IN  IF raise_for_status(response)
             THEN Finish(Raised(HTTPStatusError(response)))
             ELSE Finish(format_states(response.json))

----------------------------------------------------------------------------
(* delete_entity *)

\* str.endswith("ies"), on the entity type names of the model.
EndsWithIes(s) == s \in {"UserStories"}

\* The entity types delete_entity is called with.
DeleteEntityTypes == {"UserStory", "UserStories"}

entity_plural_of(entity_type) ==
    IF EndsWithIes(entity_type) THEN entity_type ELSE entity_type \o "s"

\* The entity the read answers with: empty; without Project; with a null or
\* empty Project; with a null or empty Process; with a Process.
EntityBodies ==
    {EmptyDict, [Id |-> 1], [Id |-> 1, Project |-> None],
     [Id |-> 1, Project |-> Some(EmptyDict)],
     [Id |-> 1, Project |-> Some([Process |-> None])],
     [Id |-> 1, Project |-> Some([Process |-> Some(EmptyDict)])]}
    \cup {[Id |-> 1, Project |-> Some([Process |-> Some([Id |-> i])])] : i \in Ids}

ATTRIBUTE_ERROR == "AttributeError: 'NoneType' object has no attribute 'get'"

\* The two lists of names taken the other way round (not what the code does).
state_names_swapped(use_done_state) ==
    IF use_done_state
    THEN <<"Deleted", "Cancelled", "Rejected">>
    ELSE <<"Done", "Completed", "Closed">>

\* A fourth preferred name in each list (not what the code does).
state_names_four(use_done_state) ==
    IF use_done_state
    THEN <<"Done", "Completed", "Closed", "Resolved">>
    ELSE <<"Deleted", "Cancelled", "Rejected", "Removed">>

state_names_of(use_done_state) ==
    IF use_done_state
    THEN <<"Done", "Completed", "Closed">>
    ELSE <<"Deleted", "Cancelled", "Rejected">>

\* The query of delete_entity for one preferred state name.
delete_state_query(client, entity_type, process_id, state_name) ==
    get_entities(client, "EntityStates",
                 Some("EntityType.Name eq '" \o entity_type \o "' and Process.Id eq "
                          \o ToString(process_id) \o " and Name eq '" \o state_name
                          \o "'"),
                 None, 1)

\* delete_entity, up to the read of the entity.
delete_entity ==
    /\ pc = "idle"
    /\ \E ic \in LazyInit,
          a \in [entity_type : DeleteEntityTypes, entity_id : Ids,
                 use_done_state : BOOLEAN] :
         LET entity_plural == entity_plural_of(a.entity_type)
         IN  Start("delete_entity", a, ic,
                   [entity_plural |-> entity_plural, process_id |-> None, i |-> 0],
                   get_entity_by_id(ic.client[1], entity_plural, a.entity_id,
                                    Some("[Project[Process]]")),
                   "delete_entity_read")

\* delete_entity, from the entity's response to the first state query.
delete_entity_read ==
    /\ pc = "delete_entity_read"
    /\ \E response \in Responses(EntityBodies) :
         Deliver(response) /\
         LET entity == response.json
             project == DictGet(entity, "Project", Some(EmptyDict))
             process == DictGet(project[1], "Process", Some(EmptyDict))
             process_id == Get(process[1], "Id")
         IN  IF raise_for_status(response)
             THEN Finish(Raised(HTTPStatusError(response)))
             ELSE IF ~TruthyDict(entity)
             THEN Finish(Returned(json_dumps(
                     [error |-> args.entity_type \o " " \o ToString(args.entity_id)
                                    \o " not found"])))
             ELSE IF project = None \/ process = None
             THEN Finish(Raised(ATTRIBUTE_ERROR))
             ELSE IF ~TruthyInt(process_id)
             THEN Finish(Returned(json_dumps(
                     [error |-> "Could not determine process for entity"])))
             ELSE Resume([locals EXCEPT !.process_id = process_id, !.i = 1],
                         delete_state_query(tp_client[1], args.entity_type,
                                            process_id[1],
                                            state_names_of(args.use_done_state)[1]),
                         "delete_entity_state_query")

\* delete_entity, from one state query's response to the update, the next
\* state query, or the listing of the available states.
delete_entity_state_query ==
    /\ pc = "delete_entity_state_query"
    /\ \E response \in Responses(StateLookupBodies) :
         Deliver(response) /\
         LET states == response.json
             state_names == state_names_of(args.use_done_state)
         IN  IF raise_for_status(response)
             THEN Finish(Raised(HTTPStatusError(response)))
             ELSE IF TruthyList(DictGet(states, "Items", None))
             THEN Resume(locals,
                         update_entity(tp_client[1], locals.entity_plural,
                                       args.entity_id,
                                       [EntityState |-> [Id |-> states["Items"][1]["Id"]]]),
                         "delete_entity_update")
             ELSE IF locals.i < Len(state_names)
             THEN Resume([locals EXCEPT !.i = @ + 1],
                         delete_state_query(tp_client[1], args.entity_type,
                                            locals.process_id[1],
                                            state_names[locals.i + 1]),
                         "delete_entity_state_query")
             ELSE Resume(locals,
                         states_query(tp_client[1], args.entity_type,
                                      locals.process_id),
                         "delete_entity_available_states")

\* delete_entity, from the update's response to the return.
delete_entity_update ==
    /\ pc = "delete_entity_update"
    /\ \E response \in Responses(OpaqueBodies) :
         Deliver(response) /\
         LET body == response.json
             state_name == state_names_of(args.use_done_state)[locals.i]
         IN  IF raise_for_status(response)
             THEN Finish(Raised(HTTPStatusError(response)))
             ELSE Finish(Returned(json_dumps(
                     ("Note" :> ("Entity marked as " \o state_name)) @@ response.json)))

\* delete_entity, from the answer of get_entity_states to the return.
delete_entity_available_states ==
    /\ pc = "delete_entity_available_states"
    /\ \E response \in Responses(StatesBodies) :
         Deliver(response) /\
         LET states == response.json
             available_states == format_states(response.json)
         IN  IF raise_for_status(response)
             THEN Finish(Raised(HTTPStatusError(response)))
             ELSE IF available_states[1].raised
             THEN Finish(available_states)
             ELSE Finish(Returned(json_dumps(
                      [error |-> "No suitable deletion state found for "
                                     \o args.entity_type \o " in this process",
                       available_states |->
                           DictGet(json_loads(available_states[1].value),
                                   "Items", <<>>)])))

----------------------------------------------------------------------------
(* list_projects, list_assignments, get_logged_user, create_task,
   update_user_story *)

INCLUDE_PROJECTS == "[Id,Name,Description,IsActive,StartDate,EndDate]"

list_projects ==
    /\ pc = "idle"
    /\ \E ic \in LazyInit :
         Start("list_projects", EmptyDict, ic, EmptyDict,
               get_entities(ic.client[1], "Projects", None, Some(INCLUDE_PROJECTS),
                            DefaultTake),
               "await_result")

OptEmails == {None, Some(""), Some("bob@example.com")}
OptEntityTypes == {None, Some(""), Some("Bug")}

\* A clause for user_id and one for user_email when both are given (not what
\* the code does).
list_assignments_where_both(a) ==
    LET c0 == IF TruthyInt(a.user_id)
              THEN <<"GeneralUser.Id eq " \o ToString(a.user_id[1])>>
              ELSE <<>>
        c1 == IF TruthyStr(a.user_email)
              THEN Append(c0, "GeneralUser.Email eq '" \o a.user_email[1] \o "'")
              ELSE c0
        c2 == IF TruthyStr(a.entity_type)
              THEN Append(c1, "Assignable.EntityType.Name eq '" \o a.entity_type[1] \o "'")
              ELSE c1
        c3 == IF TruthyStr(a.state)
              THEN Append(c2, "Assignable.EntityState.Name eq '" \o a.state[1] \o "'")
              ELSE c2
        c4 == IF TruthyInt(a.project_id)
              THEN Append(c3, "Assignable.Project.Id eq " \o ToString(a.project_id[1]))
              ELSE c3
    IN  IF TruthyList(c4) THEN Some(Join(c4, " and ")) ELSE None

\* The where_clauses of list_assignments, joined.
list_assignments_where(a) ==
    LET c1 == IF TruthyInt(a.user_id)
              THEN <<"GeneralUser.Id eq " \o ToString(a.user_id[1])>>
              ELSE IF TruthyStr(a.user_email)
              THEN <<"GeneralUser.Email eq '" \o a.user_email[1] \o "'">>
              ELSE <<>>
        c2 == IF TruthyStr(a.entity_type)
              THEN Append(c1, "Assignable.EntityType.Name eq '" \o a.entity_type[1] \o "'")
              ELSE c1
        c3 == IF TruthyStr(a.state)
              THEN Append(c2, "Assignable.EntityState.Name eq '" \o a.state[1] \o "'")
              ELSE c2
        c4 == IF TruthyInt(a.project_id)
              THEN Append(c3, "Assignable.Project.Id eq " \o ToString(a.project_id[1]))
              ELSE c3
    IN  IF TruthyList(c4) THEN Some(Join(c4, " and ")) ELSE None

INCLUDE_ASSIGNMENTS ==
    "[GeneralUser[Id,FirstName,LastName,Email],Assignable[Id,Name,EntityType,EntityState,Project[Name],CreateDate,ModifyDate]]"

list_assignments ==
    /\ pc = "idle"
    /\ \E ic \in LazyInit,
          a \in [user_id : OptIds, user_email : OptEmails,
                 entity_type : OptEntityTypes, state : OptNames,
                 project_id : OptIds, limit : {DefaultLimit}] :
         ListTool("list_assignments", a, ic, "Assignments",
                  list_assignments_where(a), INCLUDE_ASSIGNMENTS, a.limit)

INCLUDE_LOGGED_USER == "[Id,FirstName,LastName,Email,Login,IsActive,IsAdministrator]"

get_logged_user ==
    /\ pc = "idle"
    /\ \E ic \in LazyInit :
         Start("get_logged_user", EmptyDict, ic, EmptyDict,
               get_entity_by_name(ic.client[1], "Users", "LoggedUser",
                                  Some(INCLUDE_LOGGED_USER)),
               "await_result")

\* An effort estimate: not given, 0, or a positive number of hours.
OptEfforts == {None} \cup {Some(e) : e \in 0..MaxEffort}
OptDescriptions == {None, Some("Some *markdown*")}

\* The payload of create_task.
create_task_data(a) ==
    LET d0 == [Name |-> a.name, UserStory |-> [Id |-> a.story_id]]
        d1 == IF TruthyStr(a.description)
              THEN ("Description" :> a.description[1]) @@ d0 ELSE d0
        d2 == IF TruthyInt(a.assigned_user_id)
              THEN ("AssignedUser" :> [Id |-> a.assigned_user_id[1]]) @@ d1 ELSE d1
        d3 == IF TruthyInt(a.effort)
              THEN ("Effort" :> a.effort[1]) @@ d2 ELSE d2
    IN  d3

create_task ==
    /\ pc = "idle"
    /\ \E ic \in LazyInit,
          a \in [name : {"New Task"}, story_id : Ids, description : OptDescriptions,
                 assigned_user_id : OptIds, effort : OptEfforts] :
         Start("create_task", a, ic, EmptyDict,
               create_entity(ic.client[1], "Task", create_task_data(a)),
               "await_result")

\* The payload with an effort of 0 left out (not what the code does).
update_user_story_data_no_zero_effort(a) ==
    LET d0 == EmptyDict
        d1 == IF TruthyStr(a.name) THEN ("Name" :> a.name[1]) @@ d0 ELSE d0
        d2 == IF TruthyStr(a.description)
              THEN ("Description" :> a.description[1]) @@ d1 ELSE d1
        d3 == IF TruthyInt(a.state_id)
              THEN ("EntityState" :> [Id |-> a.state_id[1]]) @@ d2 ELSE d2
        d4 == IF TruthyInt(a.effort) THEN ("Effort" :> a.effort[1]) @@ d3 ELSE d3
        d5 == IF TruthyInt(a.iteration_id)
              THEN ("Iteration" :> [Id |-> a.iteration_id[1]]) @@ d4 ELSE d4
    IN  d5

\* The payload of update_user_story.
update_user_story_data(a) ==
    LET d0 == EmptyDict
        d1 == IF TruthyStr(a.name) THEN ("Name" :> a.name[1]) @@ d0 ELSE d0
        d2 == IF TruthyStr(a.description)
              THEN ("Description" :> a.description[1]) @@ d1 ELSE d1
        d3 == IF TruthyInt(a.state_id)
              THEN ("EntityState" :> [Id |-> a.state_id[1]]) @@ d2 ELSE d2
        d4 == IF a.effort # None THEN ("Effort" :> a.effort[1]) @@ d3 ELSE d3
        d5 == IF TruthyInt(a.iteration_id)
              THEN ("Iteration" :> [Id |-> a.iteration_id[1]]) @@ d4 ELSE d4
    IN  d5

OptStoryNames == {None, Some(""), Some("Renamed")}

update_user_story ==
    /\ pc = "idle"
    /\ \E ic \in LazyInit,
          a \in [story_id : Ids, name : OptStoryNames, description : OptDescriptions,
                 state_id : OptIds, effort : OptEfforts, iteration_id : OptIds] :
         LET data == update_user_story_data(a)
         IN  IF ic.raised = None /\ ~TruthyDict(data)
             THEN Complete("update_user_story", a, ic.client,
                           Returned(json_dumps([error |-> "No fields to update"])))
             ELSE Start("update_user_story", a, ic, EmptyDict,
                        update_entity(ic.client[1], "UserStories", a.story_id, data),
                        "await_result")

\* The host takes the invocation's outcome; no invocation is in flight.
tool_returned ==
    /\ pc = "done"
    /\ pc' = "idle"
    /\ tool' = "" /\ args' = EmptyDict /\ locals' = EmptyDict
    /\ calls' = <<>> /\ responses' = <<>> /\ result' = None
    /\ UNCHANGED <<tp_client, init_call, others>>

----------------------------------------------------------------------------
(* Client installation. *)

\* init_client() is called (by main, or directly): it reads the environment
\* and possibly the config file, and installs a client or raises.
init_client_call ==
    /\ pc = "idle"
    /\ \E env \in Envs, file \in Files :
         LET ic == init_client(env, file)
         IN  /\ tp_client' = IF ic.raised = None THEN ic.client ELSE tp_client
             /\ init_call' = Some([env |-> env, file |-> file,
                                   raised |-> ic.raised,
                                   file_read |-> ic.file_read,
                                   config_data |-> ic.config_data,
                                   client_before |-> tp_client])
    /\ pc' = "init_done"
    /\ UNCHANGED <<tool, args, locals, calls, responses, result, others>>

\* init_client() has returned to its caller.
init_client_returned ==
    /\ pc = "init_done"
    /\ pc' = "idle"
    /\ init_call' = None
    /\ UNCHANGED <<tp_client, tool, args, locals, calls, responses, result, others>>

\* A client constructed directly from a configuration replaces the singleton.
inject_client ==
    /\ pc = "idle"
    /\ \E config \in DirectConfigs :
         tp_client' = Some(TargetProcessClient(config))
    /\ UNCHANGED <<init_call, pc, tool, args, locals, calls, responses, result, others>>

----------------------------------------------------------------------------
(* The specification. *)

\* The module imported and used directly (as the tests do): main() has not run.
NotStarted == [serving |-> FALSE, exit_code |-> None, log |-> <<>>]

Init ==
    /\ tp_client = None
    /\ init_call = None
    /\ pc = "idle"
    /\ tool = ""
    /\ args = EmptyDict
    /\ locals = EmptyDict
    /\ calls = <<>>
    /\ responses = <<>>
    /\ result = None
    /\ tasks = <<>>
    /\ remote_entity = None
    /\ server = NotStarted

\* A step of a tool invocation.
ToolStep ==
    \/ list_user_stories
    \/ list_tasks
    \/ list_bugs
    \/ list_iterations
    \/ get_user_story
    \/ create_user_story
    \/ add_comment
    \/ update_entity_state
    \/ update_entity_state_lookup
    \/ update_time_spent
    \/ update_time_spent_read
    \/ search_entities
    \/ search_entities_query
    \/ get_entity_states
    \/ get_entity_states_project
    \/ get_entity_states_query
    \/ delete_entity
    \/ delete_entity_read
    \/ delete_entity_state_query
    \/ delete_entity_update
    \/ delete_entity_available_states
    \/ list_projects
    \/ list_assignments
    \/ get_logged_user
    \/ create_task
    \/ update_user_story
    \/ await_result
    \/ tool_returned

Next ==
    \/ ToolStep
    \/ init_client_call
    \/ init_client_returned
    \/ inject_client

Spec == Init /\ [][Next]_vars

----------------------------------------------------------------------------
(* Two update_time_spent invocations run together by the event loop.  A
   coroutine runs from one await to the next without interruption; the
   coroutines interleave at their awaits.  Targetprocess serves each request
   at one moment between its being sent and its response resuming the
   coroutine: a read answers with the entity as it then is, an update stores
   the fields it is given. *)

\* The frame of an update_time_spent coroutine that has not yet run.
Task(a) == [pc |-> "pending", args |-> a, call |-> None, seen |-> None, result |-> None]

\* The event loop is handed two update_time_spent calls on one entity.
gather ==
    /\ pc = "idle"
    /\ \E entity \in TimeSpentBodies, entity_type \in EntityTypes, h1 \in Hours, h2 \in Hours :
         /\ tasks' = <<Task([entity_type |-> entity_type, entity_id |-> entity["Id"],
                             hours |-> h1]),
                       Task([entity_type |-> entity_type, entity_id |-> entity["Id"],
                             hours |-> h2])>>
         /\ remote_entity' = Some([initial |-> entity, entity |-> entity,
                                   writes |-> 0, writer |-> 0])
    /\ pc' = "gather"
    /\ UNCHANGED <<tp_client, init_call, tool, args, locals, calls, responses, result, server>>

\* A coroutine runs from its start to the await of the read of the entity,
\* or ends because its init_client() raises.
task_start ==
    /\ pc = "gather"
    /\ \E i \in DOMAIN tasks, ic \in LazyInit :
         /\ tasks[i].pc = "pending"
         /\ tp_client' = ic.client
         /\ tasks' = IF ic.raised # None
                     THEN [tasks EXCEPT ![i].pc = "done",
                                        ![i].result = Raised(ic.raised[1])]
                     ELSE [tasks EXCEPT
                             ![i].pc = "read",
                             ![i].call = Some(get_entity_by_id(
                                            ic.client[1], tasks[i].args.entity_type,
                                            tasks[i].args.entity_id, Some("[TimeSpent]")))]
    /\ UNCHANGED <<init_call, pc, tool, args, locals, calls, responses, result,
                   remote_entity, server>>

\* The read is served and its response resumes the coroutine, which runs to
\* the await of the update.
task_read ==
    /\ pc = "gather"
    /\ \E i \in DOMAIN tasks,
          response \in {Response(200, remote_entity[1].entity), Response(500, EmptyDict)} :
         /\ tasks[i].pc = "read"
         /\ tasks' =
              IF raise_for_status(response)
              THEN [tasks EXCEPT ![i].pc = "done", ![i].call = None,
                                 ![i].result = Raised(HTTPStatusError(response))]
              ELSE LET entity == response.json
                       current_time == current_time_of(entity)
                       data == [TimeSpent |-> current_time + tasks[i].args.hours]
                   IN  [tasks EXCEPT
                          ![i].pc = "write",
                          ![i].seen = Some(remote_entity[1].writes),
                          ![i].call = Some(update_entity(
                                         tp_client[1], tasks[i].args.entity_type,
                                         tasks[i].args.entity_id, data))]
    /\ UNCHANGED <<tp_client, init_call, pc, tool, args, locals, calls, responses, result,
                   remote_entity, server>>

\* The update is served and its response resumes the coroutine, which returns.
task_write ==
    /\ pc = "gather"
    /\ \E i \in DOMAIN tasks, status \in Statuses :
         /\ tasks[i].pc = "write"
         /\ LET data == tasks[i].call[1].data[1]
                stored == ("TimeSpent" :> Some(data.TimeSpent)) @@ remote_entity[1].entity
                response == Response(status, IF status \in 200..299 THEN stored
                                                                   ELSE EmptyDict)
            IN  IF raise_for_status(response)
                THEN /\ tasks' = [tasks EXCEPT ![i].pc = "done", ![i].call = None,
                                               ![i].result = Raised(HTTPStatusError(response))]
                     /\ UNCHANGED remote_entity
                ELSE /\ tasks' = [tasks EXCEPT ![i].pc = "done", ![i].call = None,
                                               ![i].result = Returned(json_dumps(response.json))]
                     /\ remote_entity' = Some([remote_entity[1] EXCEPT
                                                 !.entity = stored,
                                                 !.writes = @ + 1,
                                                 !.writer = i])
    /\ UNCHANGED <<tp_client, init_call, pc, tool, args, locals, calls, responses, result,
                   server>>

\* Both coroutines have ended.
gather_returned ==
    /\ pc = "gather"
    /\ \A i \in DOMAIN tasks : tasks[i].pc = "done"
    /\ pc' = "idle"
    /\ tasks' = <<>>
    /\ remote_entity' = None
    /\ UNCHANGED <<tp_client, init_call, tool, args, locals, calls, responses, result, server>>

NextConcurrent ==
    \/ Next
    \/ gather
    \/ task_start
    \/ task_read
    \/ task_write
    \/ gather_returned

SpecConcurrent == Init /\ [][NextConcurrent]_vars

----------------------------------------------------------------------------
(* The server process: main() resolves the configuration, then serves. *)

\* sys.exit(1)
EXIT_FAILURE == 1

\* Nothing logged when init_client() raises (not what the code does).
FailureLogSilent(e) == <<>>

\* The two records main() logs when init_client() raises ValueError e.
FailureLog(e) ==
    <<[level |-> "error",
       message |-> "Failed to initialize Target Process client: " \o e],
      [level |-> "info",
       message |-> "Please set TARGETPROCESS_URL and either TARGETPROCESS_TOKEN or TARGETPROCESS_USERNAME/PASSWORD"]>>

\* main(): init_client() raises and the process logs and exits, or it
\* installs the client and server.run() begins to serve tool calls.
main ==
    /\ pc = "main"
    /\ \E env \in Envs, file \in Files :
         LET ic == init_client(env, file)
         IN  IF ic.raised # None
             THEN /\ server' = [serving |-> FALSE,
                                exit_code |-> Some(EXIT_FAILURE),
                                log |-> FailureLog(ic.raised[1])]
                  /\ pc' = "exited"
                  /\ UNCHANGED tp_client
             ELSE /\ tp_client' = ic.client
                  /\ server' = [server EXCEPT !.serving = TRUE]
                  /\ pc' = "idle"
    /\ UNCHANGED <<init_call, tool, args, locals, calls, responses, result,
                   tasks, remote_entity>>

\* The process has been started and main() is about to run.
InitMain ==
    /\ tp_client = None
    /\ init_call = None
    /\ pc = "main"
    /\ tool = ""
    /\ args = EmptyDict
    /\ locals = EmptyDict
    /\ calls = <<>>
    /\ responses = <<>>
    /\ result = None
    /\ tasks = <<>>
    /\ remote_entity = None
    /\ server = NotStarted

NextMain ==
    \/ main
    \/ ToolStep

SpecMain == InitMain /\ [][NextMain]_vars

----------------------------------------------------------------------------
(* Claims. *)

ListTools == {"list_user_stories", "list_tasks", "list_bugs", "list_iterations"}

\* One optional filter argument of a list tool: its value, its type, and the
\* clause it stands for.
Filter(kind, arg, clause) == [kind |-> kind, arg |-> arg, clause |-> clause]
IdFilter(field, x) ==
    Filter("int", x, IF x = None THEN "" ELSE field \o " eq " \o ToString(x[1]))
NameFilter(field, x) ==
    Filter("str", x, IF x = None THEN "" ELSE field \o " eq '" \o x[1] \o "'")
RawFilter(x) == Filter("str", x, IF x = None THEN "" ELSE x[1])
AssignedFilter(x) ==
    Filter("str", x,
           IF x = None THEN ""
           ELSE "(AssignedUser.Email eq '" \o x[1]
                    \o "' or AssignedUser.FirstName eq '" \o x[1] \o "')")
FlagFilter(b, clause) == Filter("flag", IF b THEN Some(clause) ELSE None, clause)

\* The filter arguments of each list tool, in the order the specification fixes.
FilterOrder(t, a) ==
    CASE t = "list_user_stories" ->
            <<RawFilter(a.where_clause), IdFilter("Project.Id", a.project_id),
              IdFilter("Iteration.Id", a.iteration_id),
              NameFilter("EntityState.Name", a.state), AssignedFilter(a.assigned_to)>>
      [] t = "list_tasks" ->
            <<RawFilter(a.where_clause), IdFilter("UserStory.Id", a.story_id),
              NameFilter("EntityState.Name", a.state), AssignedFilter(a.assigned_to)>>
      [] t = "list_bugs" ->
            <<RawFilter(a.where_clause), IdFilter("Project.Id", a.project_id),
              NameFilter("EntityState.Name", a.state),
              NameFilter("Severity.Name", a.severity), AssignedFilter(a.assigned_to)>>
      [] OTHER ->
            <<IdFilter("Project.Id", a.project_id),
              FlagFilter(a.is_current, "IsCurrent eq 'true'")>>

\* An argument is supplied when it is not None (a flag: when it is true).
SuppliedArg(f) == f.arg # None
\* An argument is supplied and is neither the id 0 nor the empty string.
NonEmptyArg(f) ==
    /\ f.arg # None
    /\ (f.kind = "int" => f.arg[1] # 0)
    /\ (f.kind = "str" => f.arg[1] # "")

RECURSIVE AndJoined(_)
AndJoined(fs) ==
    IF Len(fs) = 1 THEN fs[1].clause
    ELSE AndJoined(SubSeq(fs, 1, Len(fs) - 1)) \o " and " \o fs[Len(fs)].clause

\* The filter of a list tool's call is the AND-join of the clauses of the
\* arguments that satisfy Counts, and absent when there is none; the request
\* carries it as `where`, and carries no `where` when it is absent.
FilterIsJoinOf(Counts(_)) ==
    (tool \in ListTools /\ Len(calls) >= 1) =>
        LET present == SelectSeq(FilterOrder(tool, args), Counts)
            c == calls[1]
        IN  /\ c.op = "get_entities"
            /\ c.where = (IF Len(present) = 0 THEN None ELSE Some(AndJoined(present)))
            /\ ("where" \in DOMAIN c.request.params) <=> (Len(present) > 0)
            /\ Len(present) > 0 => c.request.params["where"] = AndJoined(present)

\* C1 (as stated): for every combination of the optional filter arguments of
\* list_user_stories, list_tasks, list_bugs and list_iterations, the filter
\* passed to the client is exactly the clauses of the supplied arguments joined
\* with " and " in the fixed per-tool order, and with no argument supplied the
\* filter is absent and the request has no `where` parameter.
C1_FilterJoinsSuppliedArguments == FilterIsJoinOf(SuppliedArg)

\* C1 (amended): the same, where an argument contributes its clause when it is
\* supplied and is neither the id 0 nor the empty string (those are dropped
\* like an absent argument).
C1_FilterJoinsNonEmptyArguments == FilterIsJoinOf(NonEmptyArg)

C1_Witness ==
    /\ tool = "list_bugs"
    /\ Len(calls) = 1
    /\ args.where_clause = Some("Tags contains 'urgent'")
    /\ args.project_id = Some(1)
    /\ args.state = Some("Open")
    /\ args.severity = Some("Critical")
    /\ args.assigned_to = Some("bob")
    /\ calls[1].request.params["where"] =
         "Tags contains 'urgent' and Project.Id eq 1 and EntityState.Name eq 'Open' and Severity.Name eq 'Critical' and (AssignedUser.Email eq 'bob' or AssignedUser.FirstName eq 'bob')"

----------------------------------------------------------------------------
(* C2, C3: authentication. *)

ClientOps ==
    {"get_entities", "get_entity_by_id", "create_entity", "update_entity",
     "add_comment"}

TokenConfigured(config) == config.token # None /\ config.token[1] # ""
CredentialsConfigured(config) ==
    /\ config.username # None /\ config.username[1] # ""
    /\ config.password # None /\ config.password[1] # ""

SendsAccessToken(c) == "access_token" \in DOMAIN c.request.params
SendsAuthorization(c) == "Authorization" \in DOMAIN c.request.headers

TokenOnly(config) ==
    TokenConfigured(config) /\ config.username = None /\ config.password = None
CredentialsOnly(config) ==
    config.token = None /\ CredentialsConfigured(config)

----------------------------------------------------------------------------
(* C4: update_entity_state. *)

NoItems(body) == "Items" \notin DOMAIN body \/ Len(body["Items"]) = 0

\* C4: update_entity_state makes exactly one state lookup (EntityStates with
\* the filter Name eq '<name>' and take 1); when the lookup returns no item it
\* makes no update call and returns {error: "State '<name>' not found"};
\* otherwise it makes, after the lookup, exactly one update call on the given
\* entity with the payload {EntityState: {Id: <id of the first item>}}.
C4_OneLookupThenAtMostOneUpdate ==
    (tool = "update_entity_state" /\ Len(calls) >= 1) =>
        /\ calls[1].op = "get_entities"
        /\ calls[1].entity_type = "EntityStates"
        /\ calls[1].request.params["where"] = "Name eq '" \o args.state_name \o "'"
        /\ calls[1].request.params["take"] = "1"
        /\ \A i \in 2..Len(calls) : calls[i].op = "update_entity"
        /\ Len(calls) <= 2
        /\ (Len(responses) >= 1 /\ responses[1].status = 200) =>
             IF NoItems(responses[1].json)
             THEN /\ Len(calls) = 1
                  /\ pc = "done"
                  /\ result = Returned(json_dumps(
                         [error |-> "State '" \o args.state_name \o "' not found"]))
             ELSE /\ Len(calls) = 2
                  /\ calls[2].entity_type = args.entity_type
                  /\ calls[2].entity_id = Some(args.entity_id)
                  /\ calls[2].request.method = "POST"
                  /\ calls[2].request.json =
                       Some([EntityState |->
                                [Id |-> responses[1].json["Items"][1]["Id"]]])

\* The lookup returned two states, with ids 1 and 0, and the update carries 1.
C4_Witness ==
    /\ tool = "update_entity_state"
    /\ Len(responses) = 1
    /\ responses[1].status = 200
    /\ responses[1].json = [Items |-> <<[Id |-> 1], [Id |-> 0]>>]
    /\ Len(calls) = 2
    /\ calls[2].request.json = Some([EntityState |-> [Id |-> 1]])

----------------------------------------------------------------------------
(* C5: update_time_spent. *)

\* C5: for every current TimeSpent c of the entity (missing or null counting
\* as 0) and every hours h, update_time_spent makes exactly one read of the
\* entity followed by exactly one update call, with the payload
\* {TimeSpent: c + h}.
C5_OneReadThenOneUpdateOfSum ==
    (tool = "update_time_spent" /\ Len(calls) >= 1) =>
        /\ calls[1].op = "get_entity_by_id"
        /\ calls[1].entity_type = args.entity_type
        /\ calls[1].entity_id = Some(args.entity_id)
        /\ \A i \in 2..Len(calls) : calls[i].op = "update_entity"
        /\ Len(calls) <= 2
        /\ (Len(responses) >= 1 /\ responses[1].status = 200) =>
             LET entity == responses[1].json
                 c == IF "TimeSpent" \in DOMAIN entity /\ entity["TimeSpent"] # None
                      THEN entity["TimeSpent"][1] ELSE 0
             IN  /\ Len(calls) = 2
                 /\ calls[2].entity_type = args.entity_type
                 /\ calls[2].entity_id = Some(args.entity_id)
                 /\ calls[2].request.json = Some([TimeSpent |-> c + args.hours])

\* The entity holds TimeSpent 2, one hour is added, and the update carries 3.
C5_Witness ==
    /\ tool = "update_time_spent"
    /\ args.hours = 1
    /\ Len(responses) >= 1
    /\ responses[1].json = [Id |-> 1, TimeSpent |-> Some(2)]
    /\ Len(calls) = 2
    /\ calls[2].request.json = Some([TimeSpent |-> 3])

----------------------------------------------------------------------------
(* C6: search_entities. *)

\* The entity types a search is asked for: the caller's list, or the three
\* default types when the caller gives none.
Requested(a) ==
    IF a.entity_types = None \/ Len(a.entity_types[1]) = 0
    THEN <<"UserStories", "Tasks", "Bugs">>
    ELSE a.entity_types[1]

\* C6: search_entities runs one list query per requested entity type
\* (UserStories, Tasks, Bugs by default), in order, whatever the earlier
\* queries answered; once the queries have begun the call never raises, and
\* it returns a map with one key per requested type, holding {error: message}
\* for a type whose query failed and the item array for a type whose query
\* succeeded.
C6_SearchIsolatesFailures ==
    (tool = "search_entities" /\ Len(calls) >= 1) =>
        LET requested == Requested(args)
            last(i) == \A j \in (i + 1)..Len(requested) : requested[j] # requested[i]
        IN  /\ Len(calls) = (IF pc = "done" THEN Len(requested)
                                            ELSE Len(responses) + 1)
            /\ Len(calls) <= Len(requested)
            /\ \A i \in 1..Len(calls) :
                 /\ calls[i].op = "get_entities"
                 /\ calls[i].entity_type = requested[i]
            /\ pc = "done" =>
                 /\ Len(responses) = Len(requested)
                 /\ result # None
                 /\ ~result[1].raised
                 /\ LET results == json_loads(result[1].value)
                    IN  /\ DOMAIN results = {requested[i] : i \in 1..Len(requested)}
                        /\ \A i \in 1..Len(requested) :
                             last(i) =>
                               IF responses[i].status \in 200..299
                               THEN results[requested[i]] =
                                      (IF "Items" \in DOMAIN responses[i].json
                                       THEN responses[i].json["Items"] ELSE <<>>)
                               ELSE results[requested[i]] =
                                      [error |-> "HTTPStatusError: "
                                                   \o ToString(responses[i].status)]

\* The default search, whose Tasks query fails: three keys, two item arrays
\* and one error.
C6_Witness ==
    /\ tool = "search_entities"
    /\ pc = "done"
    /\ args.entity_types = None
    /\ Len(responses) = 3
    /\ responses[1].status = 200 /\ responses[1].json = [Items |-> <<[Id |-> 1]>>]
    /\ responses[2].status = 500
    /\ responses[3].status = 200 /\ responses[3].json = [Items |-> <<[Id |-> 1]>>]
    /\ result = Returned(json_dumps(
           [UserStories |-> <<[Id |-> 1]>>,
            Tasks |-> [error |-> "HTTPStatusError: 500"],
            Bugs |-> <<[Id |-> 1]>>]))

----------------------------------------------------------------------------
(* C7: get_entity_states. *)

\* C7 (as stated): for every list of states the remote service returns,
\* items with a missing or null numeric priority included, get_entity_states
\* returns the same states ordered ascending by numeric priority.
C7_StatesReturnedAscendingByPriority ==
    (/\ tool = "get_entity_states"
     /\ pc = "done"
     /\ Len(responses) >= 1
     /\ responses[Len(responses)].status = 200) =>
        LET states == responses[Len(responses)].json
            items == IF "Items" \in DOMAIN states THEN states["Items"] ELSE <<>>
        IN  /\ result # None
            /\ ~result[1].raised
            /\ LET returned == json_loads(result[1].value)
                   out == IF "Items" \in DOMAIN returned
                          THEN returned["Items"] ELSE <<>>
               IN  /\ Len(out) = Len(items)
                   /\ {out[i]["Id"] : i \in 1..Len(out)}
                        = {items[i]["Id"] : i \in 1..Len(items)}
                   /\ \A i \in 1..Len(out) : \A j \in (i + 1)..Len(out) :
                        /\ out[i]["Priority"] # None
                        /\ out[j]["Priority"] # None
                        /\ out[i]["Priority"][1] <= out[j]["Priority"][1]

----------------------------------------------------------------------------
(* C8, C9: delete_entity. *)

PreferredNames(a) ==
    IF a.use_done_state
    THEN <<"Done", "Completed", "Closed">>
    ELSE <<"Deleted", "Cancelled", "Rejected">>

\* A query for one state (take 1), as against the listing of all states.
IsStateQuery(c) == c.op = "get_entities" /\ c.take = Some(1)

\* The process the read of the entity answered with.
OwningProcess == responses[1].json["Project"][1]["Process"][1]["Id"]

\* C8: delete_entity first makes one read of the entity, which resolves the
\* owning process; it then queries the preferred state names one at a time in
\* the fixed order (Done, Completed, Closed when use_done_state is true;
\* Deleted, Cancelled, Rejected otherwise), each query naming the entity type
\* and that process; at the first name whose query returns an item it queries
\* no further name, makes exactly one update call setting the id of that item,
\* and returns the updated payload with Note "Entity marked as <that name>".
C8_FirstPreferredStateIsApplied ==
    (tool = "delete_entity" /\ Len(calls) >= 1) =>
        LET names == PreferredNames(args)
        IN  /\ calls[1].op = "get_entity_by_id"
            /\ calls[1].entity_id = Some(args.entity_id)
            /\ \A k \in 2..Len(calls) :
                 /\ calls[k].op # "get_entity_by_id"
                 /\ IsStateQuery(calls[k]) =>
                      /\ k - 1 <= Len(names)
                      /\ calls[k].entity_type = "EntityStates"
                      /\ calls[k].request.params["where"] =
                           "EntityType.Name eq '" \o args.entity_type
                               \o "' and Process.Id eq " \o ToString(OwningProcess)
                               \o " and Name eq '" \o names[k - 1] \o "'"
                      /\ \A j \in 2..(k - 1) :
                           /\ IsStateQuery(calls[j])
                           /\ responses[j].status = 200
                           /\ NoItems(responses[j].json)
                 /\ calls[k].op = "update_entity" =>
                      /\ k = Len(calls)
                      /\ IsStateQuery(calls[k - 1])
                      /\ ~NoItems(responses[k - 1].json)
            /\ \A k \in 2..Len(responses) :
                 (/\ IsStateQuery(calls[k])
                  /\ responses[k].status = 200
                  /\ ~NoItems(responses[k].json)) =>
                    /\ Len(calls) = k + 1
                    /\ calls[k + 1].op = "update_entity"
                    /\ calls[k + 1].entity_id = Some(args.entity_id)
                    /\ calls[k + 1].request.json =
                         Some([EntityState |->
                                  [Id |-> responses[k].json["Items"][1]["Id"]]])
                    /\ (Len(responses) = k + 1 /\ responses[k + 1].status = 200) =>
                         /\ pc = "done"
                         /\ result = Returned(json_dumps(
                                ("Note" :> ("Entity marked as " \o names[k - 1]))
                                    @@ responses[k + 1].json))

\* No "Done" state, a "Completed" state with id 1: a read, two state queries
\* and one update, and the Note names Completed.
C8_Witness ==
    /\ tool = "delete_entity"
    /\ pc = "done"
    /\ args.use_done_state
    /\ Len(calls) = 4
    /\ Len(responses) = 4
    /\ NoItems(responses[2].json)
    /\ responses[3].json = [Items |-> <<[Id |-> 1]>>]
    /\ calls[4].op = "update_entity"
    /\ responses[4].status = 200
    /\ result # None
    /\ ~result[1].raised
    /\ json_loads(result[1].value)["Note"] = "Entity marked as Completed"

\* C9 (as stated): when none of the three preferred state names of the mode
\* exists for the entity's process, delete_entity makes no update call, lists
\* all the states of the entity type and process, and returns a JSON object
\* holding `error` and, under `available_states`, those states.
C9_FallbackReturnsErrorWithAvailableStates ==
    (/\ tool = "delete_entity"
     /\ pc = "done"
     /\ Len(responses) = 5
     /\ \A k \in 1..5 : responses[k].status = 200
     /\ \A k \in 2..4 : NoItems(responses[k].json)) =>
        LET states == responses[5].json
            items == IF "Items" \in DOMAIN states THEN states["Items"] ELSE <<>>
        IN  /\ \A k \in 1..Len(calls) : calls[k].op # "update_entity"
            /\ calls[5].op = "get_entities"
            /\ calls[5].entity_type = "EntityStates"
            /\ calls[5].request.params["where"] =
                 "EntityType.Name eq '" \o args.entity_type
                     \o "' and Process.Id eq " \o ToString(OwningProcess)
            /\ result # None
            /\ ~result[1].raised
            /\ LET returned == json_loads(result[1].value)
               IN  /\ DOMAIN returned = {"error", "available_states"}
                   /\ {returned["available_states"][i]["Id"] :
                          i \in 1..Len(returned["available_states"])}
                        = {items[i]["Id"] : i \in 1..Len(items)}

----------------------------------------------------------------------------
(* C10: configuration resolution. *)

\* The value of a setting after a field-by-field merge: the environment's
\* when it is set there (and not empty), the config file's otherwise.
Merged(env, file, key) ==
    IF key \in DOMAIN env
        /\ (IF key = "TARGETPROCESS_URL"
            THEN env[key][1].stem # "" \/ env[key][1].slashes > 0
            ELSE env[key][1] # "")
    THEN env[key]
    ELSE IF file.exists /\ file.parses /\ key \in DOMAIN file.data
    THEN file.data[key]
    ELSE None

\* C10 (as stated): each of URL, token, username and password of the client
\* that configuration resolution installs is the environment's value when set
\* and the config file's value otherwise.
C10_EnvironmentWinsFieldByField ==
    (pc = "init_done" /\ init_call[1].raised = None) =>
        LET env == init_call[1].env
            file == init_call[1].file
            config == tp_client[1].config
        IN  /\ Some(config.base_url) = Merged(env, file, "TARGETPROCESS_URL")
            /\ config.token = Merged(env, file, "TARGETPROCESS_TOKEN")
            /\ config.username = Merged(env, file, "TARGETPROCESS_USERNAME")
            /\ config.password = Merged(env, file, "TARGETPROCESS_PASSWORD")

----------------------------------------------------------------------------
(* C11..C15: what init_client accepts, what it raises, and the config file. *)

\* The phrase sequences of the messages init_client can raise.
ERROR_PHRASES == {URL_NOT_FOUND_PHRASES, TOKEN_REQUIRED_PHRASES}

\* p occurs in w as a run of consecutive phrases.
IsInfix(p, w) ==
    \E i \in 0..(Len(w) - Len(p)) : SubSeq(w, i + 1, i + Len(p)) = p

\* The message msg states the given phrases, word for word.
MessageStates(msg, phrases) ==
    \E w \in ERROR_PHRASES : Join(w, "") = msg /\ IsInfix(phrases, w)

\* A setting is present (and not empty) in the environment alone.
InEnv(env, key) ==
    Merged(env, [exists |-> FALSE, parses |-> FALSE, data |-> EmptyDict], key) # None

\* C11 (as stated): with a URL, a username and a password present after the
\* merge, init_client succeeds; without a token the installed client's headers
\* carry the Basic Authorization header of the pair and the client holds no
\* token, and with a token the client holds the token and sends no
\* Authorization header.
C11_UsernamePasswordIsAccepted ==
    pc = "init_done" =>
        LET env == init_call[1].env
            file == init_call[1].file
            token == Merged(env, file, "TARGETPROCESS_TOKEN")
            username == Merged(env, file, "TARGETPROCESS_USERNAME")
            password == Merged(env, file, "TARGETPROCESS_PASSWORD")
        IN  (/\ Merged(env, file, "TARGETPROCESS_URL") # None
             /\ username # None
             /\ password # None) =>
                /\ init_call[1].raised = None
                /\ tp_client[1].access_token = token
                /\ IF token = None
                   THEN /\ "Authorization" \in DOMAIN tp_client[1].headers
                        /\ tp_client[1].headers["Authorization"] =
                             "Basic " \o b64encode(username[1] \o ":" \o password[1])
                   ELSE "Authorization" \notin DOMAIN tp_client[1].headers

\* C12: a call of init_client that finds the URL neither in the environment
\* nor in the config file raises the error stating "TARGETPROCESS_URL not
\* found" whatever token, username and password are present, leaves tp_client
\* as it was and issues no request; a tool whose lazy initialisation fails
\* this way has issued no request and left no client installed either.
C12_MissingUrlFailsBeforeAnyCall ==
    [][ /\ (pc = "idle" /\ pc' = "init_done"
              /\ Merged(init_call'[1].env, init_call'[1].file, "TARGETPROCESS_URL") = None) =>
                /\ init_call'[1].raised = Some(URL_NOT_FOUND)
                /\ MessageStates(init_call'[1].raised[1], <<"TARGETPROCESS_URL not found">>)
                /\ tp_client' = tp_client
                /\ calls' = calls
                /\ responses' = responses
        /\ (pc = "idle" /\ pc' = "done" /\ result' = Raised(URL_NOT_FOUND)) =>
                /\ tp_client = None
                /\ tp_client' = None
                /\ calls' = <<>> ]_vars

\* init_client has raised for a missing URL although a token, a username and
\* a password were all present, with a client installed beforehand.
C12_Witness ==
    /\ pc = "init_done"
    /\ Merged(init_call[1].env, init_call[1].file, "TARGETPROCESS_URL") = None
    /\ Merged(init_call[1].env, init_call[1].file, "TARGETPROCESS_TOKEN") # None
    /\ Merged(init_call[1].env, init_call[1].file, "TARGETPROCESS_USERNAME") # None
    /\ Merged(init_call[1].env, init_call[1].file, "TARGETPROCESS_PASSWORD") # None
    /\ init_call[1].raised = Some(URL_NOT_FOUND)
    /\ init_call[1].client_before # None
    /\ tp_client = init_call[1].client_before

\* C13 (as stated): with a URL present after the merge and neither a token nor
\* a username and password pair, init_client raises an error whose message
\* states "TARGETPROCESS_TOKEN or TARGETPROCESS_USERNAME/PASSWORD is required"
\* and leaves tp_client as it was.
C13_MissingAuthMessageNamesBothMethods ==
    pc = "init_done" =>
        LET env == init_call[1].env
            file == init_call[1].file
        IN  (/\ Merged(env, file, "TARGETPROCESS_URL") # None
             /\ Merged(env, file, "TARGETPROCESS_TOKEN") = None
             /\ ~(/\ Merged(env, file, "TARGETPROCESS_USERNAME") # None
                  /\ Merged(env, file, "TARGETPROCESS_PASSWORD") # None)) =>
                /\ init_call[1].raised # None
                /\ MessageStates(init_call[1].raised[1],
                                 <<"TARGETPROCESS_TOKEN",
                                   " or TARGETPROCESS_USERNAME/PASSWORD",
                                   " is required">>)
                /\ tp_client = init_call[1].client_before

\* C14 (as stated): init_client reads the config file exactly when the
\* environment lacks the URL, or holds neither a token nor both a username
\* and a password.
C14_FileReadIffEnvironmentIncomplete ==
    pc = "init_done" =>
        LET env == init_call[1].env
        IN  init_call[1].file_read <=>
                \/ ~InEnv(env, "TARGETPROCESS_URL")
                \/ ~(\/ InEnv(env, "TARGETPROCESS_TOKEN")
                     \/ InEnv(env, "TARGETPROCESS_USERNAME") /\ InEnv(env, "TARGETPROCESS_PASSWORD"))

\* A config file that exists and parses to a JSON object.
EmptyObjectFile == [exists |-> TRUE, parses |-> TRUE, data |-> EmptyDict]

\* C15: whenever init_client reads the config file, load_config_from_file
\* hands back the parsed object of a file that exists and parses and the empty
\* object otherwise, and init_client raises nothing but its own two errors; a
\* missing or broken file makes init_client do exactly what it does with a file
\* holding the empty object, so with a URL and a token in the environment it
\* succeeds.
C15_LoadConfigNeverFails ==
    pc = "init_done" =>
        LET env == init_call[1].env
            file == init_call[1].file
            broken == ~file.exists \/ ~file.parses
        IN  /\ init_call[1].file_read =>
                 init_call[1].config_data =
                    Some(IF broken THEN EmptyDict ELSE file.data)
            /\ ~init_call[1].file_read => init_call[1].config_data = None
            /\ init_call[1].raised \in {None, Some(URL_NOT_FOUND), Some(TOKEN_REQUIRED)}
            /\ broken =>
                 LET same == init_client(env, EmptyObjectFile)
                 IN  /\ init_call[1].raised = same.raised
                     /\ init_call[1].raised = None => tp_client = same.client
            /\ (broken /\ InEnv(env, "TARGETPROCESS_URL") /\ InEnv(env, "TARGETPROCESS_TOKEN")) =>
                 /\ init_call[1].raised = None
                 /\ tp_client # None

\* init_client has read a config file that exists but does not parse, and
\* went on with the empty object.
C15_Witness ==
    /\ pc = "init_done"
    /\ init_call[1].file.exists
    /\ ~init_call[1].file.parses
    /\ init_call[1].file_read
    /\ init_call[1].config_data = Some(EmptyDict)
    /\ InEnv(init_call[1].env, "TARGETPROCESS_URL")

----------------------------------------------------------------------------
(* C16: the remote calls of one tool invocation. *)

\* The most remote calls one invocation of the running tool makes.
MaxCalls ==
    CASE tool = "search_entities" -> Len(Requested(args))
      [] tool = "delete_entity" -> 5
      [] tool \in {"update_entity_state", "update_time_spent", "get_entity_states"} -> 2
      [] OTHER -> 1

\* C16 (as stated): a tool invocation that has ended, with a client to call
\* through, has made at least 1 and at most 3 remote calls.
C16_OneToThreeRemoteCalls ==
    (pc = "done" /\ result \notin {Raised(URL_NOT_FOUND), Raised(TOKEN_REQUIRED)}) =>
        (1 <= Len(calls) /\ Len(calls) <= 3)

\* C16 (amended): a tool invocation is one bounded sequence of remote calls,
\* each awaited before the next is made: at most one per requested entity type
\* for search_entities, at most 5 for delete_entity (the entity, three state
\* lookups, and the update or the listing of the states), at most 2 for
\* update_entity_state, update_time_spent and get_entity_states, and at most 1
\* for every other tool.  An invocation that ends without any remote call is
\* one whose lazy init_client raised, or update_user_story with no field to
\* update.
C16_CallsBoundedPerTool ==
    /\ Len(calls) <= MaxCalls
    /\ Len(responses) <= Len(calls)
    /\ Len(calls) <= Len(responses) + 1
    /\ pc = "done" => Len(responses) = Len(calls)
    /\ (pc = "done" /\ Len(calls) = 0) =>
         \/ result \in {Raised(URL_NOT_FOUND), Raised(TOKEN_REQUIRED)}
         \/ /\ tool = "update_user_story"
            /\ \A f \in {"name", "description"} : args[f] \in {None, Some("")}
            /\ \A f \in {"state_id", "iteration_id"} : args[f] \in {None, Some(0)}
            /\ args.effort = None
            /\ result = Returned(json_dumps([error |-> "No fields to update"]))

\* delete_entity has ended after five remote calls.
C16_Witness ==
    /\ tool = "delete_entity"
    /\ pc = "done"
    /\ Len(calls) = 5

----------------------------------------------------------------------------
(* C17, C18: concurrent invocations. *)

\* C17: when two update_time_spent invocations on one entity holding c (0
\* when TimeSpent is missing or null), adding h1 and h2, have both returned,
\* the remote TimeSpent is c + h1 + h2 if one of them read after the other's
\* update was stored, and c + h of whichever updated last if both read before
\* either update was stored: nothing in the tool prevents the second outcome,
\* which loses one of the two updates.
C17_ConcurrentUpdatesCanLoseOne ==
    (/\ pc = "gather"
     /\ \A i \in DOMAIN tasks :
          tasks[i].pc = "done" /\ ~tasks[i].result[1].raised) =>
        LET initial == remote_entity[1].initial
            c == IF "TimeSpent" \in DOMAIN initial /\ initial["TimeSpent"] # None
                 THEN initial["TimeSpent"][1]
                 ELSE 0
            final == remote_entity[1].entity["TimeSpent"]
            last == tasks[remote_entity[1].writer]
        IN  /\ remote_entity[1].writes = 2
            /\ IF \A i \in DOMAIN tasks : tasks[i].seen = Some(0)
               THEN final = Some(c + last.args.hours)
               ELSE final = Some(c + tasks[1].args.hours + tasks[2].args.hours)
            /\ last.result = Returned(json_dumps(remote_entity[1].entity))

\* Both invocations have returned and the remote TimeSpent lacks the hours
\* of one of them.
C17_Witness ==
    /\ pc = "gather"
    /\ \A i \in DOMAIN tasks :
         /\ tasks[i].pc = "done"
         /\ ~tasks[i].result[1].raised
         /\ tasks[i].args.hours > 0
    /\ "TimeSpent" \in DOMAIN remote_entity[1].initial
    /\ remote_entity[1].initial["TimeSpent"] = Some(1)
    /\ remote_entity[1].entity["TimeSpent"] = Some(1 + tasks[2].args.hours)

\* C18: a step of a tool invocation (any step but a direct call of
\* init_client, its return, and the injection of a client) leaves tp_client as
\* it is once it holds a client, whether the invocations run one at a time or
\* interleaved; when such a step does set tp_client, no client was set before
\* and the one it sets is one init_client builds.
C18_InstalledClientIsNeverReplaced ==
    [][ (/\ pc # "init_done"
         /\ pc' # "init_done"
         /\ ~(pc = "idle" /\ pc' = "idle")) =>
            /\ tp_client # None => tp_client' = tp_client
            /\ tp_client' # tp_client =>
                 /\ tp_client = None
                 /\ \E o \in InitOutcomes : o.raised = None /\ tp_client' = o.client
            /\ UNCHANGED <<init_call, server>> ]_vars

\* Two interleaved invocations are under way, the first has ended and the
\* second awaits its update, and a client is installed.
C18_Witness ==
    /\ pc = "gather"
    /\ tasks[1].pc = "done"
    /\ tasks[2].pc = "write"
    /\ tp_client # None
    /\ tp_client[1].base_url = "https://file.tpondemand.com"

----------------------------------------------------------------------------
(* C19: startup. *)

\* C19: the process serves no tool call before main() has run init_client();
\* if init_client() raises, main() logs the error and a hint, exits with a
\* non-zero status without a client installed, and nothing is served then or
\* later; the server serves tool calls only with a client installed.
C19_ResolvesBeforeServing ==
    /\ [](/\ pc = "main" =>
               /\ server = NotStarted
               /\ tp_client = None
          /\ pc = "exited" =>
               /\ ~server.serving
               /\ server.exit_code # None
               /\ server.exit_code[1] # 0
               /\ Len(server.log) = 2
               /\ server.log[1].level = "error"
               /\ \E e \in {URL_NOT_FOUND, TOKEN_REQUIRED} :
                    server.log[1].message =
                        "Failed to initialize Target Process client: " \o e
               /\ server.log[2].level = "info"
               /\ tp_client = None
          /\ server.serving =>
               /\ tp_client # None
               /\ server.exit_code = None
               /\ server.log = <<>>
          /\ ~server.serving =>
               /\ tool = ""
               /\ calls = <<>>
               /\ result = None
               /\ pc \in {"main", "exited"})
    /\ [][pc = "exited" => (pc' = "exited" /\ ~server'.serving)]_vars

\* main() has exited with status 1 after logging that the token is required.
C19_Witness ==
    /\ pc = "exited"
    /\ server.exit_code = Some(1)
    /\ Len(server.log) = 2
    /\ server.log[1].message =
         "Failed to initialize Target Process client: " \o TOKEN_REQUIRED

----------------------------------------------------------------------------
(* C20: one request per client call. *)

\* The tools that make one client call and return what it returns.
OneCallTools ==
    {"list_user_stories", "list_tasks", "list_bugs", "list_iterations",
     "list_projects", "list_assignments", "get_user_story", "get_logged_user",
     "create_user_story", "create_task", "update_user_story", "add_comment"}

\* C20: every call of a client operation sends one request (a GET for
\* get_entities and get_entity_by_id, a POST for create_entity, update_entity
\* and add_comment) and gets one response before the tool goes on; when the
\* response's status is not 2xx the operation raises the HTTP error, so no
\* request follows it in a tool that does not catch the error (every tool but
\* search_entities, which goes on to its next entity type and never beyond
\* the requested types) and the tool raises that error; when the status is 2xx
\* the operation returns the response's JSON.
C20_OneRequestPerCallNoRetry ==
    /\ Len(responses) <= Len(calls)
    /\ Len(calls) <= Len(responses) + 1
    /\ \A i \in 1..Len(calls) :
         /\ calls[i].op \in ClientOps
         /\ calls[i].request.method =
              (IF calls[i].op \in {"get_entities", "get_entity_by_id"}
               THEN "GET" ELSE "POST")
    /\ \A i \in 1..Len(responses) :
         ~(responses[i].status \in 200..299) =>
            IF tool = "search_entities"
            THEN /\ Len(calls) <= Len(Requested(args))
                 /\ i < Len(calls) => calls[i + 1].entity_type = Requested(args)[i + 1]
                 /\ pc = "done" => (result # None /\ ~result[1].raised)
            ELSE /\ i = Len(calls)
                 /\ pc = "done"
                 /\ result # None
                 /\ result[1].raised
                 /\ result[1].value = HTTPStatusError(responses[i])
    /\ (/\ tool \in OneCallTools
        /\ Len(responses) = 1
        /\ responses[1].status \in 200..299) =>
            /\ pc = "done"
            /\ result = Returned(json_dumps(responses[1].json))

\* update_time_spent has raised the HTTP error of its read, having sent no
\* second request.
C20_Witness ==
    /\ tool = "update_time_spent"
    /\ pc = "done"
    /\ Len(calls) = 1
    /\ Len(responses) = 1
    /\ responses[1].status = 500
    /\ result = Raised(HTTPStatusError(responses[1]))

----------------------------------------------------------------------------
(* C21: the requests on the wire. *)

\* The path of the resource a call addresses, below the API root.
ResourcePath(c) ==
    CASE c.op \in {"get_entities", "create_entity"} -> "/" \o c.entity_type
      [] c.op = "add_comment" -> "/Comment"
      [] OTHER -> "/" \o c.entity_type \o "/"
                      \o (IF tool = "get_logged_user" THEN c.entity_id[1]
                                                      ELSE ToString(c.entity_id[1]))

\* C21: every request a tool's client call sends goes to the client's base URL
\* (without trailing slashes) followed by /api/v1 and the resource's path,
\* never to the /api/v2 root, and carries format=json among its query
\* parameters; get_entities and get_entity_by_id send a GET, create_entity,
\* update_entity and add_comment a POST, the update to
\* {base}/api/v1/{entity_type}/{id}.
C21_RequestsTargetApiV1WithFormatJson ==
    \A i \in 1..Len(calls) :
        LET c == calls[i]
            base == tp_client[1].base_url
        IN  /\ c.request.url = base \o "/api/v1" \o ResourcePath(c)
            /\ c.request.url # base \o "/api/v2" \o ResourcePath(c)
            /\ "format" \in DOMAIN c.request.params
            /\ c.request.params["format"] = "json"
            /\ c.op \in {"get_entities", "get_entity_by_id"} => c.request.method = "GET"
            /\ c.op \in {"create_entity", "update_entity", "add_comment"} =>
                 c.request.method = "POST"
            /\ c.op = "update_entity" =>
                 c.request.url = base \o "/api/v1/" \o c.entity_type \o "/"
                                      \o ToString(c.entity_id[1])

\* A client whose configured URL ended with a slash has sent an update.
C21_Witness ==
    /\ tp_client # None
    /\ tp_client[1].config.base_url = Url("https://env.tpondemand.com", 1)
    /\ \E i \in 1..Len(calls) :
         /\ calls[i].op = "update_entity"
         /\ calls[i].request.method = "POST"
         /\ calls[i].request.url = "https://env.tpondemand.com/api/v1/UserStories/1"

----------------------------------------------------------------------------
(* C22: the filter of list_assignments. *)

\* The filter arguments of list_assignments, in order.
AssignmentFilters(a) ==
    <<IdFilter("GeneralUser.Id", a.user_id),
      NameFilter("GeneralUser.Email", a.user_email),
      NameFilter("Assignable.EntityType.Name", a.entity_type),
      NameFilter("Assignable.EntityState.Name", a.state),
      IdFilter("Assignable.Project.Id", a.project_id)>>

\* The filter of the call of list_assignments is the AND-join of the clauses
\* of `present`, and absent when there is none.
AssignmentsFilterIs(present) ==
    /\ calls[1].op = "get_entities"
    /\ calls[1].entity_type = "Assignments"
    /\ calls[1].where = (IF Len(present) = 0 THEN None ELSE Some(AndJoined(present)))
    /\ ("where" \in DOMAIN calls[1].request.params) <=> (Len(present) > 0)

\* C22 (as stated, an argument counting as present when it is supplied and is
\* neither the id 0 nor the empty string): the filter of list_assignments holds
\* one clause for each of user_id, user_email, entity_type, state and project_id
\* that is present, in that order, also when user_id and user_email are both
\* present.
C22_OneClausePerArgument ==
    (tool = "list_assignments" /\ Len(calls) >= 1) =>
        AssignmentsFilterIs(SelectSeq(AssignmentFilters(args), NonEmptyArg))

\* C22 (amended): user_id and user_email are alternatives that share one
\* clause, the one of user_id when it is present and the one of user_email
\* otherwise; entity_type, state and project_id contribute one clause each when
\* present; the clauses are AND-joined in the order user, entity type, state,
\* project.
C22_UserIdOrElseEmail ==
    (tool = "list_assignments" /\ Len(calls) >= 1) =>
        LET fs == AssignmentFilters(args)
            user == IF NonEmptyArg(fs[1]) THEN <<fs[1]>> ELSE <<fs[2]>>
        IN  AssignmentsFilterIs(SelectSeq(user \o SubSeq(fs, 3, 5), NonEmptyArg))

\* list_assignments has been called with a user_id and a user_email, and its
\* filter names the id alone.
C22_Witness ==
    /\ tool = "list_assignments"
    /\ Len(calls) = 1
    /\ args.user_id = Some(1)
    /\ args.user_email = Some("bob@example.com")
    /\ args.entity_type = Some("Bug")
    /\ args.state = Some("Open")
    /\ args.project_id = Some(1)
    /\ calls[1].request.params["where"] =
         "GeneralUser.Id eq 1 and Assignable.EntityType.Name eq 'Bug' and Assignable.EntityState.Name eq 'Open' and Assignable.Project.Id eq 1"

----------------------------------------------------------------------------
(* C23: the scope of get_entity_states. *)

\* The call c is the states query with the given filter.
IsStatesQuery(c, where) ==
    /\ c.op = "get_entities"
    /\ c.entity_type = "EntityStates"
    /\ c.where = Some(where)
    /\ c.request.params["where"] = where

----------------------------------------------------------------------------
(* C24: delete_entity without a resolvable process. *)

\* The entity names the process of its project, by an id other than 0.
HasProcess(entity) ==
    /\ "Project" \in DOMAIN entity
    /\ entity["Project"] # None
    /\ "Process" \in DOMAIN entity["Project"][1]
    /\ entity["Project"][1]["Process"] # None
    /\ "Id" \in DOMAIN entity["Project"][1]["Process"][1]
    /\ entity["Project"][1]["Process"][1]["Id"] # 0

\* C24 (as stated): when the entity delete_entity has fetched is empty, or has
\* no Project or a null one, or a Project with no Process or a null one,
\* delete_entity returns a JSON object with an `error` key, having made no
\* call but the read of the entity.
C24_NoProcessReturnsInlineError ==
    (/\ tool = "delete_entity"
     /\ Len(responses) >= 1
     /\ responses[1].status = 200
     /\ ~HasProcess(responses[1].json)) =>
        /\ pc = "done"
        /\ Len(calls) = 1
        /\ result # None
        /\ ~result[1].raised
        /\ DOMAIN json_loads(result[1].value) = {"error"}

----------------------------------------------------------------------------
(* C25: lookups before updates. *)

\* C25: in update_entity_state, update_time_spent and delete_entity every
\* call before an update call is a lookup whose response was 2xx, and a lookup
\* whose response is not 2xx is the invocation's last call: the invocation ends
\* raising that HTTP error, without an update.
C25_UpdateOnlyAfterLookupsSucceeded ==
    (tool \in {"update_entity_state", "update_time_spent", "delete_entity"}) =>
        /\ \A i \in 1..Len(calls) :
             calls[i].op = "update_entity" =>
                /\ i = Len(calls)
                /\ i >= 2
                /\ \A j \in 1..(i - 1) :
                     /\ calls[j].op \in {"get_entities", "get_entity_by_id"}
                     /\ responses[j].status \in 200..299
        /\ \A j \in 1..Len(responses) :
             ~(responses[j].status \in 200..299) =>
                /\ j = Len(calls)
                /\ pc = "done"
                /\ result # None
                /\ result[1].raised
                /\ result[1].value = HTTPStatusError(responses[j])
                /\ calls[j].op # "update_entity" =>
                     \A i \in 1..Len(calls) : calls[i].op # "update_entity"

\* delete_entity has ended on the failure of its second state lookup, after
\* three calls, none of them an update.
C25_Witness ==
    /\ tool = "delete_entity"
    /\ pc = "done"
    /\ Len(calls) = 3
    /\ responses[3].status = 500
    /\ calls[3].op = "get_entities"
    /\ result = Raised(HTTPStatusError(responses[3]))

----------------------------------------------------------------------------
(* C26: lazy initialisation under concurrent dispatch. *)

\* The coroutine i runs its head in this step.
Starts(i) == tasks[i].pc = "pending" /\ tasks'[i].pc # "pending"

\* C26: of the coroutines dispatched together, each runs its head (the test
\* for an unset client, init_client(), and the first request) in one step in
\* which no other coroutine moves.  A head that finds no client either
\* installs one and awaits its first call with it, or raises the error of
\* init_client, leaving the client unset and having made no call; a head that
\* finds a client leaves it and never raises.  No other step touches the
\* client, so it is installed at most once, and every coroutine that makes
\* calls makes them with that one client.
C26_AtMostOneInitialisation ==
    /\ [][ pc = "gather" /\ pc' = "gather" =>
             /\ \A i \in DOMAIN tasks :
                  Starts(i) =>
                     /\ \A j \in DOMAIN tasks \ {i} : tasks'[j] = tasks[j]
                     /\ IF tp_client = None
                        THEN \/ /\ tp_client' # None
                                /\ \E o \in InitOutcomes : tp_client' = o.client
                                /\ tasks'[i].pc = "read"
                             \/ /\ tp_client' = None
                                /\ tasks'[i].pc = "done"
                                /\ tasks'[i].call = None
                                /\ tasks'[i].result \in
                                     {Raised(URL_NOT_FOUND), Raised(TOKEN_REQUIRED)}
                        ELSE /\ tp_client' = tp_client
                             /\ tasks'[i].pc = "read"
             /\ (\A i \in DOMAIN tasks : ~Starts(i)) => tp_client' = tp_client
             /\ tp_client # None => tp_client' = tp_client ]_vars
    /\ [](pc = "gather" =>
            \A i \in DOMAIN tasks :
                tasks[i].call # None =>
                    /\ tp_client # None
                    /\ tasks[i].call[1].request.headers = tp_client[1].headers
                    /\ tasks[i].call[1].request.params =
                         WithAccessToken(tp_client[1], "format" :> "json")
                          @@ tasks[i].call[1].request.params)

\* The first coroutine's init_client() has raised, and the second, started
\* later with the client still unset, has installed a client and awaits its
\* read.
C26_Witness ==
    /\ pc = "gather"
    /\ tasks[1].pc = "done"
    /\ tasks[1].result = Raised(TOKEN_REQUIRED)
    /\ tasks[2].pc = "read"
    /\ tp_client # None

----------------------------------------------------------------------------
(* C27: the resource delete_entity addresses. *)

\* The collection the other tools address the entities of a type by
\* (get_user_story and update_user_story: UserStories; list_tasks: Tasks;
\* list_bugs: Bugs).
CollectionOf(entity_type) ==
    CASE entity_type \in {"UserStory", "UserStories"} -> "UserStories"
      [] entity_type = "Task" -> "Tasks"
      [] entity_type = "Bug" -> "Bugs"
      [] OTHER -> entity_type

\* delete_entity addresses the entity by `resource` in its read and in its
\* update, and names the entity type as given in its state queries.
DeleteAddresses(resource) ==
    /\ calls[1].op = "get_entity_by_id"
    /\ calls[1].entity_type = resource
    /\ calls[1].request.url =
         tp_client[1].base_url \o "/api/v1/" \o resource \o "/" \o ToString(args.entity_id)
    /\ \A k \in 2..Len(calls) :
         /\ calls[k].op = "update_entity" =>
              /\ calls[k].entity_type = resource
              /\ calls[k].request.url = calls[1].request.url
         /\ IsStateQuery(calls[k]) =>
              calls[k].request.params["where"] =
                  "EntityType.Name eq '" \o args.entity_type
                      \o "' and Process.Id eq " \o ToString(OwningProcess)
                      \o " and Name eq '" \o PreferredNames(args)[k - 1] \o "'"

\* C27 (as stated): delete_entity reads and updates the entity under the
\* collection name of its entity type (UserStories for UserStory), and its
\* state queries name the entity type itself.
C27_DeleteAddressesTheCollection ==
    (tool = "delete_entity" /\ Len(calls) >= 1) =>
        DeleteAddresses(CollectionOf(args.entity_type))

----------------------------------------------------------------------------
(* C28: the payload of update_user_story. *)

\* The argument behind each field of the payload.
StoryFields(a) ==
    [Name |-> a.name, Description |-> a.description, EntityState |-> a.state_id,
     Effort |-> a.effort, Iteration |-> a.iteration_id]

\* The fields whose argument is supplied.
SuppliedFields(a) == {k \in DOMAIN StoryFields(a) : StoryFields(a)[k] # None}

\* The fields whose argument is supplied and, but for the effort, is neither
\* the empty string nor the id 0.
NonEmptyFields(a) ==
    {k \in SuppliedFields(a) :
        CASE k \in {"Name", "Description"} -> StoryFields(a)[k][1] # ""
          [] k \in {"EntityState", "Iteration"} -> StoryFields(a)[k][1] # 0
          [] OTHER -> TRUE}

\* update_user_story, with a client to call through, sends one update of
\* UserStories/{story_id} whose payload holds exactly the given fields, or,
\* given no field, makes no call and returns the error object.
StoryUpdateHolds(fields) ==
    (/\ tool = "update_user_story"
     /\ result \notin {Raised(URL_NOT_FOUND), Raised(TOKEN_REQUIRED)}) =>
        IF fields = {}
        THEN /\ pc = "done"
             /\ Len(calls) = 0
             /\ result = Returned(json_dumps([error |-> "No fields to update"]))
        ELSE /\ Len(calls) = 1
             /\ calls[1].op = "update_entity"
             /\ calls[1].entity_type = "UserStories"
             /\ calls[1].entity_id = Some(args.story_id)
             /\ calls[1].request.json # None
             /\ DOMAIN calls[1].request.json[1] = fields
             /\ \A k \in fields :
                  calls[1].request.json[1][k] =
                      (IF k \in {"EntityState", "Iteration"}
                       THEN [Id |-> StoryFields(args)[k][1]]
                       ELSE StoryFields(args)[k][1])

\* C28 (as stated): the payload of update_user_story holds exactly the fields
\* whose argument is supplied, an effort of 0 included, and is sent in one
\* update call on UserStories; with no argument supplied the tool makes no
\* call and returns {error: "No fields to update"}.
C28_PayloadOfSuppliedFields == StoryUpdateHolds(SuppliedFields(args))

\* C28 (amended): the same, where a name or a description given as the
\* empty string and a state_id or an iteration_id given as 0 are left out like
\* an absent argument, while an effort is sent whenever it is given, 0
\* included.
C28_PayloadOfNonEmptyFields == StoryUpdateHolds(NonEmptyFields(args))

\* update_user_story, given an effort of 0 and an empty name, has sent the
\* effort alone.
C28_Witness ==
    /\ tool = "update_user_story"
    /\ args.name = Some("")
    /\ args.effort = Some(0)
    /\ Len(calls) = 1
    /\ DOMAIN calls[1].request.json[1] = {"Effort"}
    /\ calls[1].request.json[1]["Effort"] = 0

====
